---------------------------- MODULE Spec2Model ----------------------------
(***************************************************************************)
(* Model of the intent inference and adaptive reaction engine:             *)
(*   IntentTracker  (src/public/intent-tracker.js)                         *)
(*   EnemySystem    (src/public/vertical-map-generator.js)                 *)
(*   PowerUpSystem  (src/unnamed/part_003)                                 *)
(*   DeathScreen    (src/public/death-screen.js)                           *)
(*   WorldReactions (src/public/world-reactions.js)                        *)
(*                                                                         *)
(* Number conventions (TLC has integers only):                             *)
(*   time      milliseconds, the value Date.now() returns; the code's      *)
(*             seconds (Date.now() / 1000) are these divided by 1000, so a *)
(*             comparison "now - t < 2" is "now - t < 2000" here           *)
(*   length    tenths of a world unit (du); speeds in du per second        *)
(*   scores    thousandths: 0.5 is 500, the interval [0,1] is 0..1000      *)
(*   factors   power-up multipliers in ten-thousandths: 1.0 is 10000       *)
(***************************************************************************)
EXTENDS Integers, Sequences, FiniteSets, TLC

VARIABLES
  now,                 \* the wall clock, Date.now()
  frameData,           \* IntentTracker.frameData
  intentScores,        \* IntentTracker.intentScores
  pathHeatmap,         \* IntentTracker.pathHeatmap
  threats,             \* IntentTracker.threats
  lastThreatTime,      \* IntentTracker.lastThreatTime
  reactionTimes,       \* IntentTracker.reactionTimes
  totalMovingTime,     \* IntentTracker.totalMovingTime
  totalStationaryTime, \* IntentTracker.totalStationaryTime
  lastPosition,        \* IntentTracker.lastPosition
  enemyTypes,          \* EnemySystem.enemyTypes: the definitions shared per type
  enemies,             \* the enemies created: position and userData of each
  lastOp,              \* history: the operation that produced this state
  lastDelta,           \* history: milliseconds the last updateEnemy call covered
  attackChanges,       \* history: attackState assignments in the last updateEnemy
  lastPlayer,          \* history: the player the last updateEnemy call was given
  lastRoll,            \* history: what Math.random() gave its attack roll
  activePowerUps,      \* PowerUpSystem.activePowerUps
  powerUpHistory,      \* PowerUpSystem.powerUpHistory: type and activation time
  activeEffects,       \* what the last getActiveEffects() call returned
  judgmentData,        \* what getJudgmentData() handed to the death screen
  judgment,            \* the sentence generateJudgment returned
  framesRecorded,      \* history: number of recordFrame calls so far
  threatsRegistered,   \* history: number of registerThreat calls so far
  samplesAppended,     \* history: number of reactionTimes.push calls so far
  spikeObjects,        \* every spike created: position and userData of each
  spikes,              \* WorldReactions.spikes: the spikes still listed
  timers,              \* the setTimeout callbacks scheduled and not yet run
  frameDelta,          \* what clock.getDelta() gives the frame about to run
  platforms,           \* WorldReactions.platforms: position and userData
  extendedAge,         \* history: milliseconds each spike has been extended
  lastWorldCall,       \* history: the player the last update call was given
  lastEnemiesData      \* history: the enemy positions recordFrame was given

trackerVars == <<frameData, intentScores, pathHeatmap, threats, lastThreatTime,
                 reactionTimes, totalMovingTime, totalStationaryTime,
                 lastPosition, framesRecorded, threatsRegistered,
                 samplesAppended>>

enemyVars == <<enemyTypes, enemies, lastDelta, attackChanges, lastPlayer,
               lastRoll>>

powerUpVars == <<activePowerUps, powerUpHistory, activeEffects>>

judgmentVars == <<judgmentData, judgment>>

worldVars == <<spikeObjects, spikes, timers, frameDelta, platforms,
               extendedAge, lastWorldCall, lastEnemiesData>>

vars == <<now, lastOp, trackerVars, enemyVars, powerUpVars, judgmentVars,
          worldVars>>

-----------------------------------------------------------------------------
(* Bounds of the model *)

\* Date.now() when the session starts (any value larger than every duration)
StartTime == 100000
\* recordFrame calls in one behaviour
MaxFrames == 11
\* registerThreat calls in one behaviour of SpecThreat
MaxThreats == 3
\* milliseconds of a SpecThreat behaviour
ThreatHorizon == 6000
\* milliseconds of a SpecEnemy behaviour
EnemyHorizon == 5000
MaxActivations == 2
PunisherHorizon == 6000
MaxHeatFrames == 6
MaxBufferSamples == 22
MaxSlowReactions == 2
PowerUpHorizon == 30000
AbsentHorizon == 6000
\* recordFrame calls in one behaviour of SpecNearest
MaxNearestFrames == 3
\* milliseconds of a SpecCycle behaviour, and the part of them in which the
\* attack roll may succeed: a cycle begun then is over within the rest
CycleHorizon == 5000
CycleLastStart == 1000
\* platforms created in one behaviour of SpecPlatform
MaxPlatforms == 1
\* milliseconds of a SpecPlatform behaviour
PlatformHorizon == 1800
\* spikes created in one behaviour of SpecSpike
MaxSpikes == 1
\* milliseconds into the past that SpecSpike tells times apart
SpikeMemory == 600
AttackHorizon == 3500
MaxPunishers == 2
PackHorizon == 9000

-----------------------------------------------------------------------------
(* Arithmetic helpers *)

Min(a, b) == IF a < b THEN a ELSE b
Max(a, b) == IF a > b THEN a ELSE b

RECURSIVE SqrtSearch(_, _, _)
SqrtSearch(n, lo, hi) ==
  IF lo >= hi THEN lo
  ELSE CHOOSE r \in {IF mid * mid <= n THEN SqrtSearch(n, mid, hi)
                     ELSE SqrtSearch(n, lo, mid - 1) :
                       mid \in {(lo + hi + 1) \div 2}} : TRUE

\* Math.sqrt, rounded down to an integer
Sqrt(n) ==
  SqrtSearch(n, 0, IF n < 10000 THEN 100 ELSE IF n < 1000000 THEN 1000 ELSE 46340)

RECURSIVE SumSeq(_)
SumSeq(s) == IF s = <<>> THEN 0 ELSE Head(s) + SumSeq(Tail(s))

\* n / d as a score in thousandths
Frac(n, d) == (n * 1000) \div d
\* x * w for a weight w in thousandths
Weighted(x, w) == (x * w) \div 1000

-----------------------------------------------------------------------------
(* Vectors: THREE.Vector3 restricted to the ground plane y = 0 *)

Vec(x, z) == [x |-> x, z |-> z]
VLength(v) == Sqrt(v.x * v.x + v.z * v.z)
DistanceTo(a, b) == Sqrt((a.x - b.x) * (a.x - b.x) + (a.z - b.z) * (a.z - b.z))
\* Vector3.normalize(): divideScalar(length() || 1); unit vectors in thousandths
Normalize(v) ==
  LET len == VLength(v)
  IN IF len = 0 THEN Vec(0, 0)
     ELSE Vec((v.x * 1000) \div len, (v.z * 1000) \div len)
\* dot product of two unit vectors, in thousandths
Dot(a, b) == (a.x * b.x + a.z * b.z) \div 1000

-----------------------------------------------------------------------------
(* IntentTracker constants *)

WindowShort == 5000
WindowMedium == 15000
WindowLong == 30000
GridSize == 50
StationaryThreshold == 1
NoEnemyDistance == 9990
MinSamples == 10
ReactionWindow == 2000
ThreatLifetime == 5000
MaxReactionTimes == 20

Channels == {"aggression", "evasion", "greed", "panic", "precision"}

InitialScores == [c \in Channels |-> 500]

-----------------------------------------------------------------------------
(* IntentTracker pure functions *)

calculateNearestEnemyDistance(playerPos, enemiesData) ==
  IF Len(enemiesData) = 0 THEN NoEnemyDistance
  ELSE LET RECURSIVE Scan(_, _)
           Scan(i, minDist) ==
             IF i > Len(enemiesData) THEN minDist
             ELSE LET dist == DistanceTo(playerPos, enemiesData[i])
                  IN Scan(i + 1, IF dist < minDist THEN dist ELSE minDist)
       IN Scan(1, NoEnemyDistance)

countEnemiesInRange(playerPos, enemiesData, range) ==
  Cardinality({k \in 1..Len(enemiesData) :
      DistanceTo(playerPos, enemiesData[k]) < range})

\* the grid cell with the quotients truncated toward zero instead of floored
GridKeyTruncated(position) ==
  << IF position.x < 0 THEN -((-position.x) \div GridSize)
     ELSE position.x \div GridSize,
     IF position.z < 0 THEN -((-position.z) \div GridSize)
     ELSE position.z \div GridSize >>

GridKey(position) == <<position.x \div GridSize, position.z \div GridSize>>

updatePathHeatmap(heat, position) ==
  LET key == GridKey(position)
      count == IF key \in DOMAIN heat THEN heat[key] ELSE 0
  IN [k \in DOMAIN heat \cup {key} |-> IF k = key THEN count + 1 ELSE heat[k]]

\* the number of visited cells in place of the highest count
MaxCountOfCells(heat) ==
  Max(1, Cardinality(DOMAIN heat))

MaxCount(heat) ==
  IF DOMAIN heat = {} THEN 1
  ELSE Max(1, CHOOSE m \in {heat[k] : k \in DOMAIN heat} :
                 \A k \in DOMAIN heat : heat[k] <= m)

\* count / maxCount in thousandths
getPathRepetition(heat, position) ==
  LET key == GridKey(position)
      count == IF key \in DOMAIN heat THEN heat[key] ELSE 0
  IN Frac(count, MaxCount(heat))

\* the filter keeping a sample that is exactly as old as the long window
cleanOldFrameDataInclusive(fd, currentTime) ==
  SelectSeq(fd, LAMBDA f : f.timestamp >= currentTime - WindowLong)

cleanOldFrameData(fd, currentTime) ==
  SelectSeq(fd, LAMBDA f : f.timestamp > currentTime - WindowLong)

getFramesInWindow(fd, windowMs) ==
  IF Len(fd) = 0 THEN <<>>
  ELSE LET cutoff == fd[Len(fd)].timestamp - windowMs
       IN SelectSeq(fd, LAMBDA f : f.timestamp > cutoff)

getAverageReactionTime(rts) ==
  IF Len(rts) = 0 THEN 0 ELSE SumSeq(rts) \div Len(rts)

-----------------------------------------------------------------------------
(* Intent scoring *)

calculateAggression(shortFrames, mediumFrames) ==
  IF Len(shortFrames) = 0 THEN 500
  ELSE
    LET n == Len(shortFrames)
        \* shortFrames.indexOf(f) + 1: frames are distinct objects, so the
        \* index found is the frame's own index
        movingTowardEnemy == Cardinality({i \in 1..n :
            /\ ~(shortFrames[i].nearestEnemyDistance > 200)
            /\ i + 1 <= n
            /\ shortFrames[i + 1].nearestEnemyDistance
                 < shortFrames[i].nearestEnemyDistance})
        closeToEnemies ==
          Cardinality({k \in 1..Len(shortFrames) :
              shortFrames[k].nearestEnemyDistance < 50})
        attackCount == Cardinality({k \in 1..Len(mediumFrames) :
            mediumFrames[k].action = "attack"})
        aggressionScore ==
            Weighted(Frac(movingTowardEnemy, n), 400)
          + Weighted(Frac(closeToEnemies, n), 300)
          + Weighted(Min(Frac(attackCount, 10), 1000), 300)
    IN Max(0, Min(1000, aggressionScore))

calculateEvasion(shortFrames, mediumFrames) ==
  IF Len(shortFrames) = 0 THEN 500
  ELSE
    LET n == Len(shortFrames)
        movingAwayFromEnemy == Cardinality({i \in 1..n :
            /\ ~(shortFrames[i].nearestEnemyDistance > 200)
            /\ i + 1 <= n
            /\ shortFrames[i + 1].nearestEnemyDistance
                 > shortFrames[i].nearestEnemyDistance})
        safeDistance ==
          Cardinality({k \in 1..Len(shortFrames) :
              /\ shortFrames[k].nearestEnemyDistance > 100
              /\ shortFrames[k].nearestEnemyDistance < 200})
        defensiveActions ==
          Cardinality({k \in 1..Len(mediumFrames) :
              mediumFrames[k].action = "defend" \/ mediumFrames[k].action = "dash"})
        evasionScore ==
            Weighted(Frac(movingAwayFromEnemy, n), 400)
          + Weighted(Frac(safeDistance, n), 300)
          + Weighted(Min(Frac(defensiveActions, 8), 1000), 300)
    IN Max(0, Min(1000, evasionScore))

\* calculateGreed with the count normalisation and the final clamp left out
calculateGreedUncapped(mediumFrames) ==
  IF Len(mediumFrames) = 0 THEN 500
  ELSE
    LET riskyPickups ==
          Cardinality({k \in 1..Len(mediumFrames) :
              mediumFrames[k].action = "pickup" /\ mediumFrames[k].enemiesInRange > 0})
        dangerousTime ==
          Cardinality({k \in 1..Len(mediumFrames) :
              mediumFrames[k].enemiesInRange > 2 /\ mediumFrames[k].isMoving})
    IN   Weighted(Frac(riskyPickups, 3), 500)
       + Weighted(Frac(dangerousTime, Len(mediumFrames)), 500)

calculateGreed(mediumFrames) ==
  IF Len(mediumFrames) = 0 THEN 500
  ELSE
    LET riskyPickups ==
          Cardinality({k \in 1..Len(mediumFrames) :
              mediumFrames[k].action = "pickup" /\ mediumFrames[k].enemiesInRange > 0})
        dangerousTime ==
          Cardinality({k \in 1..Len(mediumFrames) :
              mediumFrames[k].enemiesInRange > 2 /\ mediumFrames[k].isMoving})
        greedScore ==
            Weighted(Min(Frac(riskyPickups, 3), 1000), 500)
          + Weighted(Frac(dangerousTime, Len(mediumFrames)), 500)
    IN Max(0, Min(1000, greedScore))

calculatePanic(shortFrames, mediumFrames, rts) ==
  IF Len(shortFrames) = 0 THEN 500
  ELSE
    LET n == Len(shortFrames)
        directionChanges == Cardinality({i \in 2..n :
            /\ VLength(shortFrames[i - 1].direction) > 0
            /\ VLength(shortFrames[i].direction) > 0
            /\ Dot(shortFrames[i - 1].direction, shortFrames[i].direction) < 500})
        \* directionChanges / (n * 0.3)
        erratic == Weighted(Min((directionChanges * 10000) \div (n * 3), 1000), 400)
        avgReaction == getAverageReactionTime(rts)
        slow == IF Len(rts) > 0 /\ avgReaction > 500
                THEN Weighted(Min((avgReaction - 500) * 2, 1000), 300)
                ELSE 0
        veryClose ==
          Cardinality({k \in 1..Len(shortFrames) :
              /\ shortFrames[k].nearestEnemyDistance < 30
              /\ shortFrames[k].enemiesInRange > 1})
        panicScore == erratic + slow + Weighted(Frac(veryClose, n), 300)
    IN Max(0, Min(1000, panicScore))

calculatePrecision(mediumFrames, longFrames, rts, heat) ==
  IF Len(mediumFrames) = 0 THEN 500
  ELSE
    LET n == Len(mediumFrames)
        speeds == [i \in 1..n |-> mediumFrames[i].speed]
        avgSpeed == SumSeq(speeds) \div n
        squares == [i \in 1..n |-> (speeds[i] - avgSpeed) * (speeds[i] - avgSpeed)]
        speedVariance == Sqrt(SumSeq(squares) \div n)
        \* 1 - speedVariance / 5, speedVariance in du per second
        smooth == Weighted(Max(0, 1000 - speedVariance * 20), 400)
        avgReaction == getAverageReactionTime(rts)
        \* 1 - avgReaction * 2, avgReaction in milliseconds
        quick == IF Len(rts) > 0
                 THEN Weighted(Max(0, 1000 - avgReaction * 2), 300)
                 ELSE 150
        currentPos == mediumFrames[n].position
        repetition == getPathRepetition(heat, currentPos)
        precisionScore == smooth + quick + Weighted(1000 - repetition, 300)
    IN Max(0, Min(1000, precisionScore))

\* updateIntentScores with the minimum-data guard comparing against 1
updateIntentScoresEarly(scores, fd, rts, heat) ==
  LET shortFrames == getFramesInWindow(fd, WindowShort)
      mediumFrames == getFramesInWindow(fd, WindowMedium)
      longFrames == getFramesInWindow(fd, WindowLong)
  IN IF Len(longFrames) < 1 THEN scores
     ELSE [aggression |-> calculateAggression(shortFrames, mediumFrames),
           evasion    |-> calculateEvasion(shortFrames, mediumFrames),
           greed      |-> calculateGreed(mediumFrames),
           panic      |-> calculatePanic(shortFrames, mediumFrames, rts),
           precision  |-> calculatePrecision(mediumFrames, longFrames, rts, heat)]

updateIntentScores(scores, fd, rts, heat) ==
  LET shortFrames == getFramesInWindow(fd, WindowShort)
      mediumFrames == getFramesInWindow(fd, WindowMedium)
      longFrames == getFramesInWindow(fd, WindowLong)
  IN IF Len(longFrames) < MinSamples THEN scores
     ELSE [aggression |-> calculateAggression(shortFrames, mediumFrames),
           evasion    |-> calculateEvasion(shortFrames, mediumFrames),
           greed      |-> calculateGreed(mediumFrames),
           panic      |-> calculatePanic(shortFrames, mediumFrames, rts),
           precision  |-> calculatePrecision(mediumFrames, longFrames, rts, heat)]

-----------------------------------------------------------------------------
(* Threat / reaction tracking *)

NoReactionTime == -1    \* reactionTime: null

NewThreat(t, threatPosition, threatType) ==
  [timestamp |-> t, position |-> threatPosition, type |-> threatType,
   reacted |-> FALSE, reactionTime |-> NoReactionTime, reactionType |-> "none"]

\* the scan of registerReaction run from the oldest threat to the most recent
MatchIndexOldestFirst(ths, t) ==
  LET eligible == {i \in 1..Len(ths) :
                     ~ths[i].reacted /\ t - ths[i].timestamp < 2000}
  IN IF eligible = {} THEN 0
     ELSE CHOOSE i \in eligible : \A j \in eligible : i <= j

\* the scan of registerReaction without the "!threat.reacted" test
MatchIndexIgnoringReacted(ths, t) ==
  LET eligible == {i \in 1..Len(ths) : t - ths[i].timestamp < 2000}
  IN IF eligible = {} THEN 0
     ELSE CHOOSE i \in eligible : \A j \in eligible : j <= i

\* the scan of registerReaction without the age test
MatchIndexAnyAge(ths, t) ==
  LET eligible == {i \in 1..Len(ths) : ~ths[i].reacted}
  IN IF eligible = {} THEN 0
     ELSE CHOOSE i \in eligible : \A j \in eligible : j <= i

\* for (i = length - 1; i >= 0; i--) if (!reacted && now - timestamp < 2):
\* the index of the threat matched, 0 when the loop ends without a match
MatchIndex(ths, t) ==
  LET eligible == {i \in 1..Len(ths) :
                     ~ths[i].reacted /\ t - ths[i].timestamp < ReactionWindow}
  IN IF eligible = {} THEN 0
     ELSE CHOOSE i \in eligible : \A j \in eligible : j <= i

MarkReacted(th, t, reactionType) ==
  [th EXCEPT !.reacted = TRUE, !.reactionTime = t - th.timestamp,
             !.reactionType = reactionType]

\* a full buffer turning the new value away instead of evicting the oldest
PushReactionTimeDropNewest(rts, x) ==
  LET pushed == Append(rts, x)
  IN IF Len(pushed) > MaxReactionTimes THEN rts ELSE pushed

\* reactionTimes.push(x); if (length > 20) shift()
PushReactionTime(rts, x) ==
  LET pushed == Append(rts, x)
  IN IF Len(pushed) > MaxReactionTimes THEN Tail(pushed) ELSE pushed

PurgeThreats(ths, t) ==
  SelectSeq(ths, LAMBDA th : t - th.timestamp < ThreatLifetime)

\* registerReaction without the break: every eligible threat is matched
registerReactionNoBreak(ths, rts, t, reactionType) ==
  LET eligible == {i \in 1..Len(ths) :
                     ~ths[i].reacted /\ t - ths[i].timestamp < ReactionWindow}
      marked == [i \in 1..Len(ths) |->
                   IF i \in eligible THEN MarkReacted(ths[i], t, reactionType)
                   ELSE ths[i]]
      RECURSIVE PushAll(_, _)
      PushAll(i, acc) ==
        IF i < 1 THEN acc
        ELSE PushAll(i - 1, IF i \in eligible
                            THEN PushReactionTime(acc, t - ths[i].timestamp)
                            ELSE acc)
  IN [threats |-> PurgeThreats(marked, t),
      reactionTimes |-> PushAll(Len(ths), rts),
      pushes |-> Cardinality(eligible)]

\* the effect of registerReaction on (threats, reactionTimes); pushes is the
\* number of reactionTimes.push calls made
registerReaction(ths, rts, t, reactionType) ==
  LET m == MatchIndex(ths, t)
      marked == IF m = 0 THEN ths
                ELSE [ths EXCEPT ![m] = MarkReacted(ths[m], t, reactionType)]
  IN [threats |-> PurgeThreats(marked, t),
      reactionTimes |-> IF m = 0 THEN rts
                        ELSE PushReactionTime(rts, t - ths[m].timestamp),
      pushes |-> IF m = 0 THEN 0 ELSE 1]

-----------------------------------------------------------------------------
(* EnemySystem: definitions and creation *)

EnemyKinds == {"OBSERVER", "PUNISHER", "DISTORTER"}

\* this.enemyTypes; times in milliseconds, lengths in du, attackFrequency in
\* thousandths. One definition object is shared by all enemies of a type.
InitialEnemyTypes ==
  [OBSERVER  |-> [speed |-> 20, attackFrequency |-> 100, attackDamage |-> 5,
                  attackWindup |-> 1500, attackDuration |-> 300,
                  attackRange |-> 40, detectionRange |-> 300, patternMemory |-> 0],
   PUNISHER  |-> [speed |-> 30, attackFrequency |-> 400, attackDamage |-> 12,
                  attackWindup |-> 800, attackDuration |-> 500,
                  attackRange |-> 30, detectionRange |-> 250, patternMemory |-> 5],
   DISTORTER |-> [speed |-> 25, attackFrequency |-> 300, attackDamage |-> 0,
                  attackWindup |-> 1000, attackDuration |-> 400,
                  attackRange |-> 80, detectionRange |-> 280, patternMemory |-> 0]]

BaselineCooldown == 2000
PunishCooldown == 1000
RecoveryTime == 500
ObservationInterval == 500
NoDamage == -1          \* pendingPlayerDamage: undefined

\* generatePatrolTarget: a point 10 to 30 units away at a random angle
PatrolOffsets == {Vec(100, 0), Vec(-300, 0)}
generatePatrolTarget(currentPos, offset) ==
  Vec(currentPos.x + offset.x, currentPos.z + offset.z)

\* createEnemy: the position and userData of the new enemy
NewEnemy(position, type, def, patrolOffset) ==
  [position |-> position,
   enemyType |-> type,
   health |-> 0,
   state |-> "patrol",
   attackState |-> "idle",
   attackWindupStartTime |-> 0,
   attackStartTime |-> 0,
   lastAttackTime |-> 0,
   attackCooldown |-> BaselineCooldown,
   patrolTarget |-> generatePatrolTarget(position, patrolOffset),
   observedActions |-> <<>>,
   lastObservationTime |-> 0,
   baseSpeed |-> def.speed,
   patternDetected |-> FALSE,
   pendingPlayerDamage |-> NoDamage,
   isObserving |-> FALSE,
   observationStrength |-> 0,
   causeDistortion |-> FALSE,
   distortionCenter |-> position,
   distortionRadius |-> 0,
   pendingSpikeHit |-> FALSE,
   spikeHitDamage |-> 0]

EnemyInit ==
  /\ enemyTypes = InitialEnemyTypes
  /\ enemies = <<>>
  /\ lastDelta = 0
  /\ attackChanges = 0
  /\ lastPlayer = [position |-> Vec(0, 0), velocity |-> Vec(0, 0)]
  /\ lastRoll = 0

-----------------------------------------------------------------------------
(* EnemySystem.updateEnemy *)

\* the behaviour state chosen at the start of updateEnemy
BehaviourState(u, def, distanceToPlayer) ==
  IF distanceToPlayer < def.detectionRange
  THEN IF distanceToPlayer < def.attackRange /\ u.attackState = "idle"
       THEN "engage"
       ELSE "chase"
  ELSE "patrol"

\* position.add(direction.normalize().multiplyScalar(speed * factor * delta)):
\* speed in du/s, factor in thousandths, delta in milliseconds
Advance(position, direction, speed, factor, delta) ==
  LET unit == Normalize(direction)
      step == (speed * factor * delta) \div 1000
  IN Vec(position.x + (unit.x * step) \div 1000000,
         position.z + (unit.z * step) \div 1000000)

\* handleMovement: the enemy's position and patrol target after the call
handleMovement(u, def, player, delta, effects, patrolOffset) ==
  LET speed == IF effects.enemySpeedMultiplier # 0
               THEN (def.speed * effects.enemySpeedMultiplier) \div 10000
               ELSE def.speed
  IN CASE u.state = "patrol" ->
            LET direction == Vec(u.patrolTarget.x - u.position.x,
                                 u.patrolTarget.z - u.position.z)
            IN [u EXCEPT
                  !.patrolTarget = IF VLength(direction) < 20
                                   THEN generatePatrolTarget(u.position, patrolOffset)
                                   ELSE u.patrolTarget,
                  !.position = IF VLength(direction) > 0
                               THEN Advance(u.position, direction, speed, 500, delta)
                               ELSE u.position]
       [] u.state = "chase" ->
            LET predictionMultiplier == 1500 + effects.enemyPredictionBonus * 3
                predictedPos ==
                  Vec(player.position.x
                        + (player.velocity.x * predictionMultiplier) \div 1000,
                      player.position.z
                        + (player.velocity.z * predictionMultiplier) \div 1000)
                direction == Vec(predictedPos.x - u.position.x,
                                 predictedPos.z - u.position.z)
            IN [u EXCEPT
                  !.position = IF VLength(direction) > 0
                               THEN Advance(u.position, direction, speed, 1000, delta)
                               ELSE u.position]
       [] OTHER ->
            LET direction == Vec(player.position.x - u.position.x,
                                 player.position.z - u.position.z)
            IN [u EXCEPT
                  !.position = IF VLength(direction) * 10 > def.attackRange * 8
                               THEN Advance(u.position, direction, speed, 300, delta)
                               ELSE u.position]

\* handleAttackState where a finished attack returns straight to idle
handleAttackStateNoRecovery(u, def, distanceToPlayer, t, roll) ==
  CASE u.attackState = "idle" ->
         IF /\ u.state = "engage"
            /\ distanceToPlayer < def.attackRange
            /\ t - u.lastAttackTime > u.attackCooldown
            /\ roll < def.attackFrequency
         THEN [enemy |-> [u EXCEPT !.attackState = "windup",
                                   !.attackWindupStartTime = t],
               threat |-> FALSE, changes |-> 1]
         ELSE [enemy |-> u, threat |-> FALSE, changes |-> 0]
    [] u.attackState = "windup" ->
         IF t - u.attackWindupStartTime >= def.attackWindup
         THEN [enemy |-> [u EXCEPT !.attackState = "attacking",
                                   !.attackStartTime = t],
               threat |-> TRUE, changes |-> 1]
         ELSE [enemy |-> u, threat |-> FALSE, changes |-> 0]
    [] u.attackState = "attacking" ->
         IF t - u.attackStartTime < def.attackDuration
         THEN [enemy |-> IF distanceToPlayer < def.attackRange
                         THEN [u EXCEPT !.pendingPlayerDamage = def.attackDamage]
                         ELSE u,
               threat |-> FALSE, changes |-> 0]
         ELSE [enemy |-> [u EXCEPT !.attackState = "idle", !.lastAttackTime = t],
               threat |-> FALSE, changes |-> 1]
    [] OTHER -> [enemy |-> u, threat |-> FALSE, changes |-> 0]

\* handleAttackState where a windup that ended long ago is caught up: the
\* attack starts at the scheduled time and, when it is over too, ends at once
handleAttackStateCatchUp(u, def, distanceToPlayer, t, roll) ==
  CASE u.attackState = "idle" ->
         IF /\ u.state = "engage"
            /\ distanceToPlayer < def.attackRange
            /\ t - u.lastAttackTime > u.attackCooldown
            /\ roll < def.attackFrequency
         THEN [enemy |-> [u EXCEPT !.attackState = "windup",
                                   !.attackWindupStartTime = t],
               threat |-> FALSE, changes |-> 1]
         ELSE [enemy |-> u, threat |-> FALSE, changes |-> 0]
    [] u.attackState = "windup" ->
         IF t - u.attackWindupStartTime >= def.attackWindup + def.attackDuration
         THEN [enemy |-> [u EXCEPT !.attackState = "cooldown",
                                   !.attackStartTime =
                                      u.attackWindupStartTime + def.attackWindup,
                                   !.lastAttackTime = t],
               threat |-> TRUE, changes |-> 2]
         ELSE IF t - u.attackWindupStartTime >= def.attackWindup
         THEN [enemy |-> [u EXCEPT !.attackState = "attacking",
                                   !.attackStartTime = t],
               threat |-> TRUE, changes |-> 1]
         ELSE [enemy |-> u, threat |-> FALSE, changes |-> 0]
    [] u.attackState = "attacking" ->
         IF t - u.attackStartTime < def.attackDuration
         THEN [enemy |-> IF distanceToPlayer < def.attackRange
                         THEN [u EXCEPT !.pendingPlayerDamage = def.attackDamage]
                         ELSE u,
               threat |-> FALSE, changes |-> 0]
         ELSE [enemy |-> [u EXCEPT !.attackState = "cooldown",
                                   !.lastAttackTime = t],
               threat |-> FALSE, changes |-> 1]
    [] u.attackState = "cooldown" ->
         IF t - u.lastAttackTime > RecoveryTime
         THEN [enemy |-> [u EXCEPT !.attackState = "idle"],
               threat |-> FALSE, changes |-> 1]
         ELSE [enemy |-> u, threat |-> FALSE, changes |-> 0]
    [] OTHER -> [enemy |-> u, threat |-> FALSE, changes |-> 0]

\* handleAttackState registering the threat when the telegraph begins
handleAttackStateThreatAtWindup(u, def, distanceToPlayer, t, roll) ==
  CASE u.attackState = "idle" ->
         IF /\ u.state = "engage"
            /\ distanceToPlayer < def.attackRange
            /\ t - u.lastAttackTime > u.attackCooldown
            /\ roll < def.attackFrequency
         THEN [enemy |-> [u EXCEPT !.attackState = "windup",
                                   !.attackWindupStartTime = t],
               threat |-> TRUE, changes |-> 1]
         ELSE [enemy |-> u, threat |-> FALSE, changes |-> 0]
    [] u.attackState = "windup" ->
         \* windupProgress >= 1
         IF t - u.attackWindupStartTime >= def.attackWindup
         THEN [enemy |-> [u EXCEPT !.attackState = "attacking",
                                   !.attackStartTime = t],
               threat |-> FALSE, changes |-> 1]
         ELSE [enemy |-> u, threat |-> FALSE, changes |-> 0]
    [] u.attackState = "attacking" ->
         \* attackProgress < 1
         IF t - u.attackStartTime < def.attackDuration
         THEN [enemy |-> IF distanceToPlayer < def.attackRange
                         THEN [u EXCEPT !.pendingPlayerDamage = def.attackDamage]
                         ELSE u,
               threat |-> FALSE, changes |-> 0]
         ELSE [enemy |-> [u EXCEPT !.attackState = "cooldown",
                                   !.lastAttackTime = t],
               threat |-> FALSE, changes |-> 1]
    [] u.attackState = "cooldown" ->
         IF t - u.lastAttackTime > RecoveryTime
         THEN [enemy |-> [u EXCEPT !.attackState = "idle"],
               threat |-> FALSE, changes |-> 1]
         ELSE [enemy |-> u, threat |-> FALSE, changes |-> 0]
    [] OTHER -> [enemy |-> u, threat |-> FALSE, changes |-> 0]

\* handleAttackState registering a threat in every tick of the attack too
handleAttackStateThreatWhileAttacking(u, def, distanceToPlayer, t, roll) ==
  CASE u.attackState = "idle" ->
         IF /\ u.state = "engage"
            /\ distanceToPlayer < def.attackRange
            /\ t - u.lastAttackTime > u.attackCooldown
            /\ roll < def.attackFrequency
         THEN [enemy |-> [u EXCEPT !.attackState = "windup",
                                   !.attackWindupStartTime = t],
               threat |-> FALSE, changes |-> 1]
         ELSE [enemy |-> u, threat |-> FALSE, changes |-> 0]
    [] u.attackState = "windup" ->
         \* windupProgress >= 1
         IF t - u.attackWindupStartTime >= def.attackWindup
         THEN [enemy |-> [u EXCEPT !.attackState = "attacking",
                                   !.attackStartTime = t],
               threat |-> TRUE, changes |-> 1]
         ELSE [enemy |-> u, threat |-> FALSE, changes |-> 0]
    [] u.attackState = "attacking" ->
         \* attackProgress < 1
         IF t - u.attackStartTime < def.attackDuration
         THEN [enemy |-> IF distanceToPlayer < def.attackRange
                         THEN [u EXCEPT !.pendingPlayerDamage = def.attackDamage]
                         ELSE u,
               threat |-> TRUE, changes |-> 0]
         ELSE [enemy |-> [u EXCEPT !.attackState = "cooldown",
                                   !.lastAttackTime = t],
               threat |-> FALSE, changes |-> 1]
    [] u.attackState = "cooldown" ->
         IF t - u.lastAttackTime > RecoveryTime
         THEN [enemy |-> [u EXCEPT !.attackState = "idle"],
               threat |-> FALSE, changes |-> 1]
         ELSE [enemy |-> u, threat |-> FALSE, changes |-> 0]
    [] OTHER -> [enemy |-> u, threat |-> FALSE, changes |-> 0]

\* handleAttackState starting an attack without waiting for the cooldown
handleAttackStateNoCooldown(u, def, distanceToPlayer, t, roll) ==
  CASE u.attackState = "idle" ->
         IF /\ u.state = "engage"
            /\ distanceToPlayer < def.attackRange
            /\ roll < def.attackFrequency
         THEN [enemy |-> [u EXCEPT !.attackState = "windup",
                                   !.attackWindupStartTime = t],
               threat |-> FALSE, changes |-> 1]
         ELSE [enemy |-> u, threat |-> FALSE, changes |-> 0]
    [] u.attackState = "windup" ->
         \* windupProgress >= 1
         IF t - u.attackWindupStartTime >= def.attackWindup
         THEN [enemy |-> [u EXCEPT !.attackState = "attacking",
                                   !.attackStartTime = t],
               threat |-> TRUE, changes |-> 1]
         ELSE [enemy |-> u, threat |-> FALSE, changes |-> 0]
    [] u.attackState = "attacking" ->
         \* attackProgress < 1
         IF t - u.attackStartTime < def.attackDuration
         THEN [enemy |-> IF distanceToPlayer < def.attackRange
                         THEN [u EXCEPT !.pendingPlayerDamage = def.attackDamage]
                         ELSE u,
               threat |-> FALSE, changes |-> 0]
         ELSE [enemy |-> [u EXCEPT !.attackState = "cooldown",
                                   !.lastAttackTime = t],
               threat |-> FALSE, changes |-> 1]
    [] u.attackState = "cooldown" ->
         IF t - u.lastAttackTime > RecoveryTime
         THEN [enemy |-> [u EXCEPT !.attackState = "idle"],
               threat |-> FALSE, changes |-> 1]
         ELSE [enemy |-> u, threat |-> FALSE, changes |-> 0]
    [] OTHER -> [enemy |-> u, threat |-> FALSE, changes |-> 0]

\* handleAttackState returning to idle in the first tick after the attack
handleAttackStateShortRecovery(u, def, distanceToPlayer, t, roll) ==
  CASE u.attackState = "idle" ->
         IF /\ u.state = "engage"
            /\ distanceToPlayer < def.attackRange
            /\ t - u.lastAttackTime > u.attackCooldown
            /\ roll < def.attackFrequency
         THEN [enemy |-> [u EXCEPT !.attackState = "windup",
                                   !.attackWindupStartTime = t],
               threat |-> FALSE, changes |-> 1]
         ELSE [enemy |-> u, threat |-> FALSE, changes |-> 0]
    [] u.attackState = "windup" ->
         \* windupProgress >= 1
         IF t - u.attackWindupStartTime >= def.attackWindup
         THEN [enemy |-> [u EXCEPT !.attackState = "attacking",
                                   !.attackStartTime = t],
               threat |-> TRUE, changes |-> 1]
         ELSE [enemy |-> u, threat |-> FALSE, changes |-> 0]
    [] u.attackState = "attacking" ->
         \* attackProgress < 1
         IF t - u.attackStartTime < def.attackDuration
         THEN [enemy |-> IF distanceToPlayer < def.attackRange
                         THEN [u EXCEPT !.pendingPlayerDamage = def.attackDamage]
                         ELSE u,
               threat |-> FALSE, changes |-> 0]
         ELSE [enemy |-> [u EXCEPT !.attackState = "cooldown",
                                   !.lastAttackTime = t],
               threat |-> FALSE, changes |-> 1]
    [] u.attackState = "cooldown" ->
         IF t - u.lastAttackTime > 0
         THEN [enemy |-> [u EXCEPT !.attackState = "idle"],
               threat |-> FALSE, changes |-> 1]
         ELSE [enemy |-> u, threat |-> FALSE, changes |-> 0]
    [] OTHER -> [enemy |-> u, threat |-> FALSE, changes |-> 0]

\* handleAttackState flagging damage wherever the player is
handleAttackStateDamageAtAnyRange(u, def, distanceToPlayer, t, roll) ==
  CASE u.attackState = "idle" ->
         IF /\ u.state = "engage"
            /\ distanceToPlayer < def.attackRange
            /\ t - u.lastAttackTime > u.attackCooldown
            /\ roll < def.attackFrequency
         THEN [enemy |-> [u EXCEPT !.attackState = "windup",
                                   !.attackWindupStartTime = t],
               threat |-> FALSE, changes |-> 1]
         ELSE [enemy |-> u, threat |-> FALSE, changes |-> 0]
    [] u.attackState = "windup" ->
         \* windupProgress >= 1
         IF t - u.attackWindupStartTime >= def.attackWindup
         THEN [enemy |-> [u EXCEPT !.attackState = "attacking",
                                   !.attackStartTime = t],
               threat |-> TRUE, changes |-> 1]
         ELSE [enemy |-> u, threat |-> FALSE, changes |-> 0]
    [] u.attackState = "attacking" ->
         \* attackProgress < 1
         IF t - u.attackStartTime < def.attackDuration
         THEN [enemy |-> [u EXCEPT !.pendingPlayerDamage = def.attackDamage],
               threat |-> FALSE, changes |-> 0]
         ELSE [enemy |-> [u EXCEPT !.attackState = "cooldown",
                                   !.lastAttackTime = t],
               threat |-> FALSE, changes |-> 1]
    [] u.attackState = "cooldown" ->
         IF t - u.lastAttackTime > RecoveryTime
         THEN [enemy |-> [u EXCEPT !.attackState = "idle"],
               threat |-> FALSE, changes |-> 1]
         ELSE [enemy |-> u, threat |-> FALSE, changes |-> 0]
    [] OTHER -> [enemy |-> u, threat |-> FALSE, changes |-> 0]

\* a switch that calls the attack off when the player has left attack range
\* during the windup
handleAttackStateCancelling(u, def, distanceToPlayer, t, roll) ==
  CASE u.attackState = "idle" ->
         IF /\ u.state = "engage"
            /\ distanceToPlayer < def.attackRange
            /\ t - u.lastAttackTime > u.attackCooldown
            /\ roll < def.attackFrequency
         THEN [enemy |-> [u EXCEPT !.attackState = "windup",
                                   !.attackWindupStartTime = t],
               threat |-> FALSE, changes |-> 1]
         ELSE [enemy |-> u, threat |-> FALSE, changes |-> 0]
    [] u.attackState = "windup" ->
         IF distanceToPlayer >= def.attackRange
         THEN [enemy |-> [u EXCEPT !.attackState = "idle"],
               threat |-> FALSE, changes |-> 1]
         ELSE IF t - u.attackWindupStartTime >= def.attackWindup
         THEN [enemy |-> [u EXCEPT !.attackState = "attacking",
                                   !.attackStartTime = t],
               threat |-> TRUE, changes |-> 1]
         ELSE [enemy |-> u, threat |-> FALSE, changes |-> 0]
    [] u.attackState = "attacking" ->
         \* attackProgress < 1
         IF t - u.attackStartTime < def.attackDuration
         THEN [enemy |-> IF distanceToPlayer < def.attackRange
                         THEN [u EXCEPT !.pendingPlayerDamage = def.attackDamage]
                         ELSE u,
               threat |-> FALSE, changes |-> 0]
         ELSE [enemy |-> [u EXCEPT !.attackState = "cooldown",
                                   !.lastAttackTime = t],
               threat |-> FALSE, changes |-> 1]
    [] u.attackState = "cooldown" ->
         IF t - u.lastAttackTime > RecoveryTime
         THEN [enemy |-> [u EXCEPT !.attackState = "idle"],
               threat |-> FALSE, changes |-> 1]
         ELSE [enemy |-> u, threat |-> FALSE, changes |-> 0]
    [] OTHER -> [enemy |-> u, threat |-> FALSE, changes |-> 0]

\* one pass of the switch in handleAttackState: the userData after it, whether
\* registerThreat is called, and the number of assignments to attackState
handleAttackState(u, def, distanceToPlayer, t, roll) ==
  CASE u.attackState = "idle" ->
         IF /\ u.state = "engage"
            /\ distanceToPlayer < def.attackRange
            /\ t - u.lastAttackTime > u.attackCooldown
            /\ roll < def.attackFrequency
         THEN [enemy |-> [u EXCEPT !.attackState = "windup",
                                   !.attackWindupStartTime = t],
               threat |-> FALSE, changes |-> 1]
         ELSE [enemy |-> u, threat |-> FALSE, changes |-> 0]
    [] u.attackState = "windup" ->
         \* windupProgress >= 1
         IF t - u.attackWindupStartTime >= def.attackWindup
         THEN [enemy |-> [u EXCEPT !.attackState = "attacking",
                                   !.attackStartTime = t],
               threat |-> TRUE, changes |-> 1]
         ELSE [enemy |-> u, threat |-> FALSE, changes |-> 0]
    [] u.attackState = "attacking" ->
         \* attackProgress < 1
         IF t - u.attackStartTime < def.attackDuration
         THEN [enemy |-> IF distanceToPlayer < def.attackRange
                         THEN [u EXCEPT !.pendingPlayerDamage = def.attackDamage]
                         ELSE u,
               threat |-> FALSE, changes |-> 0]
         ELSE [enemy |-> [u EXCEPT !.attackState = "cooldown",
                                   !.lastAttackTime = t],
               threat |-> FALSE, changes |-> 1]
    [] u.attackState = "cooldown" ->
         IF t - u.lastAttackTime > RecoveryTime
         THEN [enemy |-> [u EXCEPT !.attackState = "idle"],
               threat |-> FALSE, changes |-> 1]
         ELSE [enemy |-> u, threat |-> FALSE, changes |-> 0]
    [] OTHER -> [enemy |-> u, threat |-> FALSE, changes |-> 0]


\* handleObserverBehavior
handleObserverBehavior(u, distanceToPlayer) ==
  IF distanceToPlayer < 150 /\ distanceToPlayer > 80
  THEN [u EXCEPT !.isObserving = TRUE, !.observationStrength = 1000]
  ELSE [u EXCEPT !.isObserving = FALSE, !.observationStrength = 0]

\* Object.keys(intentScores), in insertion order
ChannelOrder == <<"aggression", "evasion", "greed", "panic", "precision">>

\* Object.keys(s).reduce((a, b) => s[a] > s[b] ? a : b)
PunisherDominantIntent(scores) ==
  LET RECURSIVE Reduce(_, _)
      Reduce(a, i) ==
        IF i > Len(ChannelOrder) THEN a
        ELSE Reduce(IF scores[a] > scores[ChannelOrder[i]] THEN a
                    ELSE ChannelOrder[i], i + 1)
  IN Reduce(ChannelOrder[1], 2)

SeqToSet(q) == {q[i] : i \in 1..Len(q)}

\* handlePunisherBehavior taking only a single repeated label for a pattern
handlePunisherBehaviorOneLabel(u, def, scores, t) ==
  IF t - u.lastObservationTime > ObservationInterval
  THEN LET pushed == Append(u.observedActions, PunisherDominantIntent(scores))
           observed == IF Len(pushed) > def.patternMemory THEN Tail(pushed)
                       ELSE pushed
       IN IF Cardinality(SeqToSet(observed)) <= 1 /\ Len(observed) >= 4
          THEN [enemy |-> [u EXCEPT !.lastObservationTime = t,
                                    !.observedActions = observed,
                                    !.patternDetected = TRUE,
                                    !.attackCooldown = PunishCooldown],
                def |-> [def EXCEPT !.speed = (u.baseSpeed * 13) \div 10]]
          ELSE [enemy |-> [u EXCEPT !.lastObservationTime = t,
                                    !.observedActions = observed,
                                    !.patternDetected = FALSE,
                                    !.attackCooldown = BaselineCooldown],
                def |-> [def EXCEPT !.speed = u.baseSpeed]]
  ELSE [enemy |-> u, def |-> def]

\* handlePunisherBehavior: the userData and the shared definition after it
handlePunisherBehavior(u, def, scores, t) ==
  IF t - u.lastObservationTime > ObservationInterval
  THEN LET pushed == Append(u.observedActions, PunisherDominantIntent(scores))
           observed == IF Len(pushed) > def.patternMemory THEN Tail(pushed)
                       ELSE pushed
       IN IF Cardinality(SeqToSet(observed)) <= 2 /\ Len(observed) >= 4
          THEN [enemy |-> [u EXCEPT !.lastObservationTime = t,
                                    !.observedActions = observed,
                                    !.patternDetected = TRUE,
                                    !.attackCooldown = PunishCooldown],
                def |-> [def EXCEPT !.speed = (u.baseSpeed * 13) \div 10]]
          ELSE [enemy |-> [u EXCEPT !.lastObservationTime = t,
                                    !.observedActions = observed,
                                    !.patternDetected = FALSE,
                                    !.attackCooldown = BaselineCooldown],
                def |-> [def EXCEPT !.speed = u.baseSpeed]]
  ELSE [enemy |-> u, def |-> def]

\* handleDistorterBehavior that never takes the distortion flag back
handleDistorterBehaviorNoReset(u, def) ==
  [enemy |-> IF u.attackState = "attacking"
             THEN [u EXCEPT !.causeDistortion = TRUE,
                            !.distortionCenter = u.position,
                            !.distortionRadius = def.attackRange]
             ELSE u,
   def |-> [def EXCEPT !.attackDamage = 0]]

\* handleDistorterBehavior: the userData and the shared definition after it
handleDistorterBehavior(u, def) ==
  [enemy |-> IF u.attackState = "attacking"
             THEN [u EXCEPT !.causeDistortion = TRUE,
                            !.distortionCenter = u.position,
                            !.distortionRadius = def.attackRange]
             ELSE [u EXCEPT !.causeDistortion = FALSE],
   def |-> [def EXCEPT !.attackDamage = 0]]

\* the type-specific step at the end of updateEnemy
TypeBehaviour(u, def, distanceToPlayer, scores, t) ==
  CASE u.enemyType = "OBSERVER" ->
         [enemy |-> handleObserverBehavior(u, distanceToPlayer), def |-> def]
    [] u.enemyType = "PUNISHER" -> handlePunisherBehavior(u, def, scores, t)
    [] OTHER -> handleDistorterBehavior(u, def)

\* createEnemy(position, type)
CreateEnemy(position, type, patrolOffset) ==
  /\ enemies' = Append(enemies,
                       NewEnemy(position, type, enemyTypes[type], patrolOffset))
  /\ lastOp' = "createEnemy"
  /\ UNCHANGED <<now, trackerVars, enemyTypes, lastDelta, attackChanges,
                 lastPlayer, lastRoll>>
  /\ UNCHANGED <<powerUpVars, judgmentVars, worldVars>>

\* updateEnemy(enemy, player, delta, powerUpEffects), Date.now() returning t,
\* Math.random() returning roll (thousandths)
UpdateEnemy(id, t, player, delta, effects, roll, patrolOffset) ==
  \E def \in {enemyTypes[enemies[id].enemyType]} :
  \E u1 \in {[enemies[id] EXCEPT !.state =
                BehaviourState(enemies[id], def,
                               DistanceTo(player.position, enemies[id].position))]} :
  \E u2 \in {handleMovement(u1, def, player, delta, effects, patrolOffset)} :
  \E dist \in {DistanceTo(player.position, u2.position)} :
  \E attack \in {handleAttackState(u2, def, dist, t, roll)} :
  \E after \in {TypeBehaviour(attack.enemy, def, dist, intentScores, t)} :
    /\ now' = t
    /\ lastOp' = "updateEnemy"
    /\ lastDelta' = delta
    /\ attackChanges' = attack.changes
    /\ lastPlayer' = player
    /\ lastRoll' = roll
    /\ enemies' = [enemies EXCEPT ![id] = after.enemy]
    /\ enemyTypes' = [enemyTypes EXCEPT ![enemies[id].enemyType] = after.def]
    /\ IF attack.threat
       THEN /\ threats' = Append(threats,
                                 NewThreat(t, u2.position, u2.enemyType))
            /\ lastThreatTime' = t
            /\ threatsRegistered' = threatsRegistered + 1
       ELSE UNCHANGED <<threats, lastThreatTime, threatsRegistered>>
    /\ UNCHANGED <<frameData, intentScores, pathHeatmap, reactionTimes,
                   totalMovingTime, totalStationaryTime, lastPosition,
                   framesRecorded, samplesAppended>>
    /\ UNCHANGED <<powerUpVars, judgmentVars, worldVars>>

-----------------------------------------------------------------------------
(* PowerUpSystem: multipliers in ten-thousandths, additive costs in
   thousandths, times in milliseconds; a field a type does not have is 0,
   which the code's truthiness tests skip *)

PowerUpKinds == {"TIME_SLOW", "DAMAGE_BOOST", "SPEED_SURGE"}

PowerUpTypes ==
  [TIME_SLOW |->
     [duration |-> 8000,
      immediateEffect |-> [enemySpeedMultiplier |-> 6000,
                           damageMultiplier |-> 0, speedMultiplier |-> 0],
      psychologicalCost |-> [enemyPredictionBonus |-> 250,
                             reactionWindowReduction |-> 300,
                             enemyResistanceToPattern |-> 0,
                             worldAwarenessIncrease |-> 0,
                             hazardResponseSpeed |-> 0,
                             durationAfterExpiry |-> 15000]],
   DAMAGE_BOOST |->
     [duration |-> 5000,
      immediateEffect |-> [enemySpeedMultiplier |-> 0,
                           damageMultiplier |-> 15000, speedMultiplier |-> 0],
      psychologicalCost |-> [enemyPredictionBonus |-> 0,
                             reactionWindowReduction |-> 0,
                             enemyResistanceToPattern |-> 400,
                             worldAwarenessIncrease |-> 0,
                             hazardResponseSpeed |-> 0,
                             durationAfterExpiry |-> 10000]],
   SPEED_SURGE |->
     [duration |-> 6000,
      immediateEffect |-> [enemySpeedMultiplier |-> 0,
                           damageMultiplier |-> 0, speedMultiplier |-> 16000],
      psychologicalCost |-> [enemyPredictionBonus |-> 0,
                             reactionWindowReduction |-> 0,
                             enemyResistanceToPattern |-> 0,
                             worldAwarenessIncrease |-> 350,
                             hazardResponseSpeed |-> 15000,
                             durationAfterExpiry |-> 12000]]]

\* 1.0 as a multiplier
One == 10000
\* costStartTime: null / costEndTime: null
NoTime == 0

\* x *= m
Scale(x, m) == (x * m) \div One

\* the object activatePowerUp builds
NewActivation(type, t) ==
  [type |-> type,
   activationTime |-> t,
   expiryTime |-> t + PowerUpTypes[type].duration,
   costStartTime |-> NoTime,
   costEndTime |-> NoTime,
   active |-> TRUE]

\* the first test of the loop body leaving the active flag as it is
ExpirePowerUpStillActive(p, t) ==
  IF t >= p.expiryTime /\ p.active
  THEN [p EXCEPT !.costStartTime = t,
                 !.costEndTime =
                    t + PowerUpTypes[p.type].psychologicalCost.durationAfterExpiry]
  ELSE p

\* update, the first test of the loop body: the benefit phase ends
ExpirePowerUp(p, t) ==
  IF t >= p.expiryTime /\ p.active
  THEN [p EXCEPT !.active = FALSE,
                 !.costStartTime = t,
                 !.costEndTime =
                    t + PowerUpTypes[p.type].psychologicalCost.durationAfterExpiry]
  ELSE p

\* the second test, taken as soon as the benefit phase is over
CostPeriodOverAtExpiry(p, t) ==
  ~p.active

\* update, the second test of the loop body: the cost period is over
CostPeriodOver(p, t) ==
  p.costStartTime # NoTime /\ t >= p.costEndTime

\* activePowerUps.splice(i, 1)
Splice(list, i) ==
  SubSeq(list, 1, i - 1) \o SubSeq(list, i + 1, Len(list))

\* update: the loop from index i down to the first activation
RECURSIVE updateFrom(_, _, _)
updateFrom(list, i, t) ==
  IF i = 0 THEN list
  ELSE LET powerUp == ExpirePowerUp(list[i], t)
           expired == [list EXCEPT ![i] = powerUp]
       IN updateFrom(IF CostPeriodOver(powerUp, t) THEN Splice(expired, i)
                     ELSE expired,
                     i - 1, t)

\* update(delta, enemies) with Date.now() returning t
update(list, t) == updateFrom(list, Len(list), t)

\* const effects = {...} of getActiveEffects
NoEffects ==
  [enemySpeedMultiplier |-> One, damageMultiplier |-> One,
   speedMultiplier |-> One, enemyPredictionBonus |-> 0,
   reactionWindowReduction |-> 0, enemyResistanceToPattern |-> 0,
   worldAwarenessIncrease |-> 0, hazardResponseSpeed |-> One]

\* getActiveEffects: the benefit branch of the forEach body
ApplyBenefit(effects, immediate) ==
  [effects EXCEPT
     !.enemySpeedMultiplier = IF immediate.enemySpeedMultiplier # 0
                              THEN Scale(@, immediate.enemySpeedMultiplier)
                              ELSE @,
     !.damageMultiplier = IF immediate.damageMultiplier # 0
                          THEN Scale(@, immediate.damageMultiplier) ELSE @,
     !.speedMultiplier = IF immediate.speedMultiplier # 0
                         THEN Scale(@, immediate.speedMultiplier) ELSE @]

\* the cost branch with the costs assigned, not accumulated
ApplyCostOverwriting(effects, cost) ==
  [effects EXCEPT
     !.enemyPredictionBonus = cost.enemyPredictionBonus,
     !.reactionWindowReduction = cost.reactionWindowReduction,
     !.enemyResistanceToPattern = cost.enemyResistanceToPattern,
     !.worldAwarenessIncrease = cost.worldAwarenessIncrease,
     !.hazardResponseSpeed = IF cost.hazardResponseSpeed # 0
                             THEN cost.hazardResponseSpeed ELSE @]

\* getActiveEffects: the cost branch of the forEach body
ApplyCost(effects, cost) ==
  [effects EXCEPT
     !.enemyPredictionBonus = @ + cost.enemyPredictionBonus,
     !.reactionWindowReduction = @ + cost.reactionWindowReduction,
     !.enemyResistanceToPattern = @ + cost.enemyResistanceToPattern,
     !.worldAwarenessIncrease = @ + cost.worldAwarenessIncrease,
     !.hazardResponseSpeed = IF cost.hazardResponseSpeed # 0
                             THEN Scale(@, cost.hazardResponseSpeed) ELSE @]

\* getActiveEffects: the forEach body
ApplyPowerUp(effects, powerUp, t) ==
  IF powerUp.active
  THEN ApplyBenefit(effects, PowerUpTypes[powerUp.type].immediateEffect)
  ELSE IF /\ powerUp.costStartTime # NoTime
          /\ powerUp.costEndTime # NoTime
          /\ t < powerUp.costEndTime
  THEN ApplyCost(effects, PowerUpTypes[powerUp.type].psychologicalCost)
  ELSE effects

\* getActiveEffects: the forEach over the first k activations
RECURSIVE EffectsOfFirst(_, _, _)
EffectsOfFirst(list, k, t) ==
  IF k = 0 THEN NoEffects
  ELSE ApplyPowerUp(EffectsOfFirst(list, k - 1, t), list[k], t)

\* getActiveEffects() with Date.now() returning t
getActiveEffects(list, t) == EffectsOfFirst(list, Len(list), t)

PowerUpInit ==
  /\ activePowerUps = <<>>
  /\ powerUpHistory = <<>>
  /\ activeEffects = NoEffects

\* activatePowerUp(type, onNotification) with Date.now() returning t
ActivatePowerUp(type, t) ==
  /\ now' = t
  /\ lastOp' = "activatePowerUp"
  /\ IF type \in PowerUpKinds
     THEN /\ activePowerUps' = Append(activePowerUps, NewActivation(type, t))
          /\ powerUpHistory' = Append(powerUpHistory,
                                      [type |-> type, activationTime |-> t])
     ELSE UNCHANGED <<activePowerUps, powerUpHistory>>
  /\ UNCHANGED <<activeEffects, trackerVars, enemyVars, judgmentVars,
                 worldVars>>

\* update(delta, enemies) with Date.now() returning t
PowerUpUpdate(t) ==
  /\ now' = t
  /\ lastOp' = "update"
  /\ activePowerUps' = update(activePowerUps, t)
  /\ UNCHANGED <<powerUpHistory, activeEffects, trackerVars, enemyVars,
                 judgmentVars, worldVars>>

\* getActiveEffects() with Date.now() returning t
GetActiveEffects(t) ==
  /\ now' = t
  /\ lastOp' = "getActiveEffects"
  /\ activeEffects' = getActiveEffects(activePowerUps, t)
  /\ UNCHANGED <<activePowerUps, powerUpHistory, trackerVars, enemyVars,
                 judgmentVars, worldVars>>

-----------------------------------------------------------------------------
(* DeathScreen.generateJudgment: scores and ratios in thousandths, the average
   reaction time in milliseconds *)

\* getJudgmentData: the first key, in declaration order, holding the maximum
DominantIntent(scores) ==
  LET maxScore == CHOOSE x \in {scores[c] : c \in Channels} :
                    \A c \in Channels : scores[c] <= x
      first == CHOOSE i \in 1..Len(ChannelOrder) :
                 /\ scores[ChannelOrder[i]] = maxScore
                 /\ \A k \in 1..(i - 1) : scores[ChannelOrder[k]] # maxScore
  IN ChannelOrder[first]

\* the object getJudgmentData returns, as far as generateJudgment reads it
JudgmentData(scores, movingRatio, pathRepetition, averageReactionTime) ==
  [intentScores |-> scores,
   dominantIntent |-> DominantIntent(scores),
   movementStats |-> [movingRatio |-> movingRatio,
                      pathRepetition |-> pathRepetition],
   averageReactionTime |-> averageReactionTime]

Rule(condition, text) == [condition |-> condition, text |-> text]

\* judgments.aggression with its second rule declared first
AggressionRulesRecklessFirst(d) ==
  << Rule(d.intentScores.aggression > 700 /\ d.intentScores.precision < 400,
          "Reckless force. The world rewards patience."),
     Rule(d.intentScores.aggression > 800 /\ d.averageReactionTime < 300,
          "You trusted speed. The world waited."),
     Rule(d.intentScores.aggression > 600,
          "Aggression without wisdom. The world adapted.") >>

\* judgments.aggression
AggressionRules(d) ==
  << Rule(d.intentScores.aggression > 800 /\ d.averageReactionTime < 300,
          "You trusted speed. The world waited."),
     Rule(d.intentScores.aggression > 700 /\ d.intentScores.precision < 400,
          "Reckless force. The world rewards patience."),
     Rule(d.intentScores.aggression > 600,
          "Aggression without wisdom. The world adapted.") >>

\* judgments.evasion
EvasionRules(d) ==
  << Rule(d.intentScores.evasion > 800 /\ d.movementStats.movingRatio > 800,
          "You never stopped running. The world closed in."),
     Rule(d.intentScores.evasion > 700 /\ d.intentScores.panic > 600,
          "Fear guided you. The world sensed it."),
     Rule(d.intentScores.evasion > 600,
          "You hesitated. The world closed in.") >>

\* judgments.greed
GreedRules(d) ==
  << Rule(d.intentScores.greed > 700,
          "You chased rewards. The world set traps."),
     Rule(d.intentScores.greed > 500 /\ d.intentScores.precision < 400,
          "Desire made you predictable.") >>

\* judgments.panic
PanicRules(d) ==
  << Rule(d.intentScores.panic > 700 /\ d.averageReactionTime > 500,
          "Chaos was your strategy. The world found order."),
     Rule(d.intentScores.panic > 600,
          "You lost composure. The world remained calm.") >>

\* judgments.precision with its second rule declared first
PrecisionRulesRepeatedFirst(d) ==
  << Rule(d.intentScores.precision > 800 /\ d.movementStats.pathRepetition > 700,
          "You repeated yourself."),
     Rule(d.intentScores.precision > 800 /\ d.movementStats.pathRepetition > 700,
          "Perfect patterns. Perfectly predictable."),
     Rule(d.intentScores.precision > 700,
          "Precision without adaptation. The world evolved.") >>

\* judgments.precision
PrecisionRules(d) ==
  << Rule(d.intentScores.precision > 800 /\ d.movementStats.pathRepetition > 700,
          "Perfect patterns. Perfectly predictable."),
     Rule(d.intentScores.precision > 800 /\ d.movementStats.pathRepetition > 700,
          "You repeated yourself."),
     Rule(d.intentScores.precision > 700,
          "Precision without adaptation. The world evolved.") >>

\* const judgments = {...}
Judgments(d) ==
  [aggression |-> AggressionRules(d), evasion |-> EvasionRules(d),
   greed |-> GreedRules(d), panic |-> PanicRules(d),
   precision |-> PrecisionRules(d)]

\* combinedJudgments with the slow-reaction rule declared first
CombinedJudgmentsReactionFirst(d) ==
  << Rule(d.averageReactionTime > 800,
          "The world moved faster than your thoughts."),
     Rule(d.movementStats.movingRatio < 200,
          "Standing still is still a choice. The world remembered."),
     Rule(d.movementStats.pathRepetition > 900,
          "The same path, the same end."),
     Rule(d.intentScores.aggression > 700 /\ d.intentScores.panic > 700,
          "Desperate aggression. The world exploited both."),
     Rule(d.intentScores.evasion > 700 /\ d.intentScores.greed > 600,
          "Caution and greed cannot coexist.") >>

\* const combinedJudgments = [...]
CombinedJudgments(d) ==
  << Rule(d.movementStats.movingRatio < 200,
          "Standing still is still a choice. The world remembered."),
     Rule(d.averageReactionTime > 800,
          "The world moved faster than your thoughts."),
     Rule(d.movementStats.pathRepetition > 900,
          "The same path, the same end."),
     Rule(d.intentScores.aggression > 700 /\ d.intentScores.panic > 700,
          "Desperate aggression. The world exploited both."),
     Rule(d.intentScores.evasion > 700 /\ d.intentScores.greed > 600,
          "Caution and greed cannot coexist.") >>

Fallback == "The world observed. The world adapted. The world prevailed."

\* the indices of the rules whose condition() is true
Matching(rules) == {i \in 1..Len(rules) : rules[i].condition}

\* for (const judgment of rules) if (judgment.condition()) return judgment.text
FirstMatch(rules) ==
  rules[CHOOSE i \in Matching(rules) : \A k \in Matching(rules) : i <= k].text

\* generateJudgment trying the dominant intent's rules before the combined ones
generateJudgmentDominantFirst(d) ==
  IF /\ d.dominantIntent \in DOMAIN Judgments(d)
     /\ Matching(Judgments(d)[d.dominantIntent]) # {}
  THEN FirstMatch(Judgments(d)[d.dominantIntent])
  ELSE IF Matching(CombinedJudgments(d)) # {}
  THEN FirstMatch(CombinedJudgments(d))
  ELSE Fallback

\* generateJudgment(judgmentData)
generateJudgment(d) ==
  IF Matching(CombinedJudgments(d)) # {}
  THEN FirstMatch(CombinedJudgments(d))
  ELSE IF /\ d.dominantIntent \in DOMAIN Judgments(d)
          /\ Matching(Judgments(d)[d.dominantIntent]) # {}
  THEN FirstMatch(Judgments(d)[d.dominantIntent])
  ELSE Fallback

\* no sentence generated yet
NoJudgment == "none"

JudgmentInit ==
  /\ judgmentData = JudgmentData(InitialScores, 500, 0, 0)
  /\ judgment = NoJudgment

\* show(onRestart), getJudgmentData() returning data
ShowDeathScreen(data) ==
  /\ judgmentData' = data
  /\ judgment' = generateJudgment(data)
  /\ lastOp' = "show"
  /\ UNCHANGED <<now, trackerVars, enemyVars, powerUpVars, worldVars>>

\* generateJudgment(judgmentData) called with data the caller put together
GenerateJudgment(data) ==
  /\ judgmentData' = data
  /\ judgment' = generateJudgment(data)
  /\ lastOp' = "generateJudgment"
  /\ UNCHANGED <<now, trackerVars, enemyVars, powerUpVars, worldVars>>

-----------------------------------------------------------------------------
(* WorldReactions: spikes.  Heights (the y coordinate) are in thousandths
   of a world unit, everything else as above; players and enemies stand on
   the ground, y = 0 *)

SpikeRetractedY == -1000
SpikeExtendedY == 1000
SpikeEvaluationInterval == 300
SpikeDamage == 15
SpikeDamageInterval == 500
RetractionDelay == 2000
SpikePlayerRange == 80
SpikeEnemyRange == 30
SpikeDamageRange == 15
HeadingThreshold == 300
ArrivedBelow == 100
MovingAbove == 10

\* createIntentBasedSpike(position): the mesh position and its userData; a
\* pendingPlayerDamage that was never set is 0, which the game loop skips
NewSpike(position) ==
  [position |-> position,
   retractedY |-> SpikeRetractedY,
   extendedY |-> SpikeExtendedY,
   currentY |-> SpikeRetractedY,
   state |-> "retracted",
   lastEvaluationTime |-> 0,
   evaluationInterval |-> SpikeEvaluationInterval,
   damage |-> SpikeDamage,
   damageInterval |-> SpikeDamageInterval,
   lastDamageTime |-> 0,
   pendingPlayerDamage |-> 0]

\* nothing called yet
NoWorldCall == [player |-> [position |-> Vec(0, 0), velocity |-> Vec(0, 0)]]

WorldInit ==
  /\ spikeObjects = <<>>
  /\ spikes = <<>>
  /\ timers = {}
  /\ frameDelta = 0
  /\ platforms = <<>>
  /\ extendedAge = <<>>
  /\ lastWorldCall = NoWorldCall
  /\ lastEnemiesData = <<>>

\* x * n / d rounded toward zero, as well for negative x
Scaled(x, n, d) == IF x < 0 THEN -((-x * n) \div d) ELSE (x * n) \div d
Abs(x) == IF x < 0 THEN -x ELSE x

\* position.distanceTo(spike.position) for a position on the ground; the
\* spike's mesh is at the height currentY
SpikeDistance(u, position) ==
  LET dx == u.position.x - position.x
      dz == u.position.z - position.z
      dy == u.currentY \div 100
  IN Sqrt(dx * dx + dz * dz + dy * dy)

\* playerDirection.dot(toSpike), in thousandths: the velocity normalized and
\* the direction from the player to the spike's mesh normalized
HeadingDot(u, player) ==
  LET len == SpikeDistance(u, player.position)
      dir == Normalize(player.velocity)
      dx == u.position.x - player.position.x
      dz == u.position.z - player.position.z
  IN IF len = 0 THEN 0
     ELSE (dir.x * ((dx * 1000) \div len) + dir.z * ((dz * 1000) \div len))
            \div 1000

\* the distance findNearestEnemy's result has to the spike; no enemy: none
NearestEnemyDistance(u, enemyList) ==
  LET RECURSIVE Scan(_, _)
      Scan(i, minDist) ==
        IF i > Len(enemyList) THEN minDist
        ELSE LET dist == SpikeDistance(u, enemyList[i].position)
             IN Scan(i + 1, IF dist < minDist THEN dist ELSE minDist)
  IN Scan(1, NoEnemyDistance)

FleeingTowards(u, scores, player) ==
  /\ scores.evasion > 700
  /\ scores.panic > 500
  /\ SpikeDistance(u, player.position) < SpikePlayerRange
  /\ HeadingDot(u, player) > HeadingThreshold

EruptsUnderEnemy(u, scores, enemyList) ==
  /\ scores.aggression > 700
  /\ Len(enemyList) > 0
  /\ NearestEnemyDistance(u, enemyList) < SpikeEnemyRange

\* evaluateSpike without the evaluation interval
evaluateSpikeEveryTick(u, t, scores, player, enemyList) ==
  LET state1 == IF FleeingTowards(u, scores, player)
                THEN "extending" ELSE u.state
      state2 == IF EruptsUnderEnemy(u, scores, enemyList)
                THEN "extending" ELSE state1
  IN [spike |-> [u EXCEPT !.lastEvaluationTime = t, !.state = state2],
      scheduled |-> state2 = "extended",
      evaluated |-> TRUE]

\* the evaluation block of updateSpikes for one spike: the spike after it
\* and whether a retraction callback was scheduled
evaluateSpike(u, t, scores, player, enemyList) ==
  IF t - u.lastEvaluationTime > u.evaluationInterval
  THEN LET state1 == IF FleeingTowards(u, scores, player)
                     THEN "extending" ELSE u.state
           state2 == IF EruptsUnderEnemy(u, scores, enemyList)
                     THEN "extending" ELSE state1
       IN [spike |-> [u EXCEPT !.lastEvaluationTime = t, !.state = state2],
           scheduled |-> state2 = "extended",
           evaluated |-> TRUE]
  ELSE [spike |-> u, scheduled |-> FALSE, evaluated |-> FALSE]

\* the animation block: the spike moves toward the height its state asks
\* for, and a state changes in a tick that began close to that height
animateSpike(u, delta) ==
  LET targetY == IF u.state \in {"extending", "extended"}
                 THEN u.extendedY ELSE u.retractedY
      diff == targetY - u.currentY
  IN IF Abs(diff) > MovingAbove
     THEN [u EXCEPT !.currentY = u.currentY + Scaled(diff, delta * 5, 1000),
                    !.state = IF Abs(diff) < ArrivedBelow
                              THEN CASE u.state = "extending" -> "extended"
                                     [] u.state = "retracting" -> "retracted"
                                     [] OTHER -> u.state
                              ELSE u.state]
     ELSE u

\* the enemies the damage block marks
SpikeHits(u, t, enemyList) ==
  IF u.state = "extended" /\ t - u.lastDamageTime > u.damageInterval
  THEN {i \in 1..Len(enemyList) :
          SpikeDistance(u, enemyList[i].position) < SpikeDamageRange}
  ELSE {}

\* whether the damage block flags damage for the player
SpikeHitsPlayer(u, t, player) ==
  /\ u.state = "extended"
  /\ t - u.lastDamageTime > u.damageInterval
  /\ SpikeDistance(u, player.position) < SpikeDamageRange

\* damageBySpike for a spike that is extending as well
damageBySpikeWhileOut(u, t, player, enemyList) ==
  IF u.state \in {"extending", "extended"}
       /\ t - u.lastDamageTime > u.damageInterval
  THEN LET hitsPlayer ==
             SpikeDistance(u, player.position) < SpikeDamageRange
       IN [u EXCEPT !.lastDamageTime =
                      IF hitsPlayer \/ SpikeHits(u, t, enemyList) # {}
                      THEN t ELSE u.lastDamageTime,
                    !.pendingPlayerDamage =
                      IF hitsPlayer THEN u.damage ELSE u.pendingPlayerDamage]
  ELSE u

\* the damage block
damageBySpike(u, t, player, enemyList) ==
  IF u.state = "extended" /\ t - u.lastDamageTime > u.damageInterval
  THEN LET hitsPlayer == SpikeHitsPlayer(u, t, player)
       IN [u EXCEPT !.lastDamageTime =
                      IF hitsPlayer \/ SpikeHits(u, t, enemyList) # {}
                      THEN t ELSE u.lastDamageTime,
                    !.pendingPlayerDamage =
                      IF hitsPlayer THEN u.damage ELSE u.pendingPlayerDamage]
  ELSE u

\* the body of the forEach in updateSpikes for one spike: the three blocks
\* one after the other, each working on what the one before it left
updateSpike(u, t, scores, player, enemyList, delta) ==
  CHOOSE r \in
    {[spike |-> damageBySpike(moved, t, player, enemyList),
      scheduled |-> evaluation.scheduled,
      evaluated |-> evaluation.evaluated,
      hits |-> SpikeHits(moved, t, enemyList),
      hitsPlayer |-> SpikeHitsPlayer(moved, t, player)] :
       evaluation \in {evaluateSpike(u, t, scores, player, enemyList)},
       moved \in {animateSpike(ev.spike, delta) :
                    ev \in {evaluateSpike(u, t, scores, player, enemyList)}}} :
    TRUE

\* enemy.userData.pendingSpikeHit = true; spikeHitDamage = damage
MarkHit(enemyList, hits, damage) ==
  [i \in 1..Len(enemyList) |->
     IF i \in hits
     THEN [enemyList[i] EXCEPT !.pendingSpikeHit = TRUE,
                               !.spikeHitDamage = damage]
     ELSE enemyList[i]]

\* updateSpikes(player, enemies, delta), Date.now() returning t: the listed
\* spikes in order, each seeing the enemies as the spikes before it left them
RECURSIVE updateSpikes(_, _, _, _, _, _, _, _)
updateSpikes(i, objects, enemyList, pending, t, scores, player, delta) ==
  IF i > Len(spikes)
  THEN [objects |-> objects, enemies |-> enemyList, timers |-> pending]
  ELSE CHOOSE result \in
         {updateSpikes(i + 1,
                       [objects EXCEPT ![spikes[i]] = r.spike],
                       MarkHit(enemyList, r.hits, r.spike.damage),
                       IF r.scheduled
                       THEN pending \cup {[spike |-> spikes[i],
                                           due |-> t + RetractionDelay]}
                       ELSE pending,
                       t, scores, player, delta) :
            r \in {updateSpike(objects[spikes[i]], t, scores, player,
                               enemyList, delta)}} :
         TRUE

\* the callback given to setTimeout
retractionCallback(u) ==
  IF u.state = "extended" THEN [u EXCEPT !.state = "retracting"] ELSE u

-----------------------------------------------------------------------------
(* WorldReactions: platforms.  A platform's mesh is at the height currentY
   (position.y is set to it whenever it changes, and both start at baseY) *)

PlatformEvaluationInterval == 500
PlatformLift == 3000
PlatformEscape == 2000
CampingBelow == 300
MobileAbove == 700
CampingRange == 150
LiftEvasion == 600
EscapeAggression == 500
NoRatio == 500

\* createJudgmentalPlatform(position), position.y being baseY
NewPlatform(position, baseY) ==
  [position |-> position,
   baseY |-> baseY,
   targetY |-> baseY,
   currentY |-> baseY,
   state |-> "idle",
   lastEvaluationTime |-> 0,
   evaluationInterval |-> PlatformEvaluationInterval,
   intention |-> "none"]

\* getMovementStats().movingRatio, in thousandths
MovingRatio(moving, stationary) ==
  IF moving + stationary > 0 THEN Frac(moving, moving + stationary)
  ELSE NoRatio

\* the length of the vector from a point on the ground to the mesh
PlatformDistance(u, position) ==
  LET dx == u.position.x - position.x
      dz == u.position.z - position.z
      dy == u.currentY \div 100
  IN Sqrt(dx * dx + dz * dz + dy * dy)

\* getAverageEnemyPosition(enemies), on the ground
AverageEnemyPosition(enemyList) ==
  LET RECURSIVE Sum(_)
      Sum(i) == IF i = 0 THEN Vec(0, 0)
                ELSE Vec(Sum(i - 1).x + enemyList[i].position.x,
                         Sum(i - 1).z + enemyList[i].position.z)
  IN Vec(Scaled(Sum(Len(enemyList)).x, 1, Len(enemyList)),
         Scaled(Sum(Len(enemyList)).z, 1, Len(enemyList)))

\* position.x += direction.x * delta * speed and the same for z, the
\* direction being from -> towards normalized in space and then laid flat;
\* speed in du per second
Drift(u, from, towards, len, delta, speed) ==
  IF len = 0 THEN u.position
  ELSE Vec(u.position.x
             + Scaled(((towards.x - from.x) * 1000) \div len, delta * speed,
                      1000000),
           u.position.z
             + Scaled(((towards.z - from.z) * 1000) \div len, delta * speed,
                      1000000))

\* an evaluation that takes a still player for a camping one wherever they are
evaluatePlatformAnywhere(u, t, scores, movingRatio, player, enemyList, delta) ==
  IF t - u.lastEvaluationTime > u.evaluationInterval
  THEN LET evaluated == [u EXCEPT !.lastEvaluationTime = t]
       IN IF movingRatio < CampingBelow /\ scores.evasion > LiftEvasion
          THEN [evaluated EXCEPT !.intention = "lift_enemies",
                                 !.targetY = u.baseY + PlatformLift]
          ELSE IF movingRatio > MobileAbove
                    /\ scores.aggression > EscapeAggression
          THEN [evaluated EXCEPT !.intention = "create_escape",
                                 !.targetY = u.baseY + PlatformEscape]
          ELSE [evaluated EXCEPT !.intention = "none", !.targetY = u.baseY]
  ELSE u

\* the evaluation block of updatePlatforms for one platform
evaluatePlatform(u, t, scores, movingRatio, player, enemyList, delta) ==
  IF t - u.lastEvaluationTime > u.evaluationInterval
  THEN LET distanceToPlayer == PlatformDistance(u, player.position)
           isCamping == movingRatio < CampingBelow
                          /\ distanceToPlayer < CampingRange
           isHighlyMobile == movingRatio > MobileAbove
           evaluated == [u EXCEPT !.lastEvaluationTime = t]
       IN IF isCamping /\ scores.evasion > LiftEvasion
          THEN [evaluated EXCEPT
                  !.intention = "lift_enemies",
                  !.targetY = u.baseY + PlatformLift,
                  !.position =
                    IF Len(enemyList) > 0
                    THEN Drift(u, u.position, player.position,
                               distanceToPlayer, delta, 20)
                    ELSE u.position]
          ELSE IF isHighlyMobile /\ scores.aggression > EscapeAggression
          THEN [evaluated EXCEPT
                  !.intention = "create_escape",
                  !.targetY = u.baseY + PlatformEscape,
                  !.position =
                    IF Len(enemyList) > 0
                    THEN Drift(u, AverageEnemyPosition(enemyList), u.position,
                               PlatformDistance(
                                 u, AverageEnemyPosition(enemyList)),
                               delta, 15)
                    ELSE u.position]
          ELSE [evaluated EXCEPT !.intention = "none", !.targetY = u.baseY]
  ELSE u

\* the platform moves toward its target height
raisePlatform(u, delta) ==
  IF Abs(u.targetY - u.currentY) > MovingAbove
  THEN [u EXCEPT !.currentY =
                   u.currentY + Scaled(u.targetY - u.currentY, delta * 2, 1000)]
  ELSE u

\* updatePlatforms(player, enemies, delta), Date.now() returning t
updatePlatforms(list, t, scores, movingRatio, player, enemyList, delta) ==
  [i \in 1..Len(list) |->
     CHOOSE r \in {raisePlatform(e, delta) :
                     e \in {evaluatePlatform(list[i], t, scores, movingRatio,
                                             player, enemyList, delta)}} :
       TRUE]

-----------------------------------------------------------------------------
(* IntentTracker operations *)

TrackerInit ==
  /\ frameData = <<>>
  /\ intentScores = InitialScores
  /\ pathHeatmap = <<>>
  /\ threats = <<>>
  /\ lastThreatTime = 0
  /\ reactionTimes = <<>>
  /\ totalMovingTime = 0
  /\ totalStationaryTime = 0
  /\ lastPosition = <<>>
  /\ framesRecorded = 0
  /\ threatsRegistered = 0
  /\ samplesAppended = 0

NewFrame(t, playerData, enemiesData) ==
  [timestamp |-> t,
   position |-> playerData.position,
   direction |-> Normalize(playerData.velocity),
   speed |-> VLength(playerData.velocity),
   isMoving |-> VLength(playerData.velocity) > StationaryThreshold,
   nearestEnemyDistance |->
     calculateNearestEnemyDistance(playerData.position, enemiesData),
   enemiesInRange |-> countEnemiesInRange(playerData.position, enemiesData, 100),
   action |-> playerData.lastAction]

\* recordFrame(playerData, enemiesData, delta), Date.now() returning t
RecordFrame(t, playerData, enemiesData, delta) ==
  \E frame \in {NewFrame(t, playerData, enemiesData)} :
  \E heat \in {updatePathHeatmap(pathHeatmap, frame.position)} :
  \E fd \in {cleanOldFrameData(Append(frameData, frame), t)} :
     /\ now' = t
     /\ lastOp' = "recordFrame"
     /\ totalMovingTime' = IF frame.isMoving THEN totalMovingTime + delta
                           ELSE totalMovingTime
     /\ totalStationaryTime' = IF frame.isMoving THEN totalStationaryTime
                               ELSE totalStationaryTime + delta
     /\ pathHeatmap' = heat
     /\ frameData' = fd
     /\ intentScores' = updateIntentScores(intentScores, fd, reactionTimes, heat)
     /\ lastPosition' = <<frame.position>>
     /\ framesRecorded' = framesRecorded + 1
     /\ lastEnemiesData' = enemiesData
     /\ UNCHANGED <<threats, lastThreatTime, reactionTimes, threatsRegistered,
                    samplesAppended>>
     /\ UNCHANGED <<enemyVars, powerUpVars, judgmentVars>>
     /\ UNCHANGED <<spikeObjects, spikes, timers, frameDelta, platforms,
                    extendedAge, lastWorldCall>>

\* registerThreat(threatPosition, threatType), Date.now() returning t
RegisterThreat(t, threatPosition, threatType) ==
  /\ now' = t
  /\ lastOp' = "registerThreat"
  /\ threats' = Append(threats, NewThreat(t, threatPosition, threatType))
  /\ lastThreatTime' = t
  /\ threatsRegistered' = threatsRegistered + 1
  /\ UNCHANGED <<frameData, intentScores, pathHeatmap, reactionTimes,
                 totalMovingTime, totalStationaryTime, lastPosition,
                 framesRecorded, samplesAppended>>
  /\ UNCHANGED <<enemyVars, powerUpVars, judgmentVars, worldVars>>

\* registerReaction(reactionType), Date.now() returning t
RegisterReaction(t, reactionType) ==
  LET r == registerReaction(threats, reactionTimes, t, reactionType)
  IN /\ now' = t
     /\ lastOp' = "registerReaction"
     /\ threats' = r.threats
     /\ reactionTimes' = r.reactionTimes
     /\ samplesAppended' = samplesAppended + r.pushes
     /\ UNCHANGED <<frameData, intentScores, pathHeatmap, lastThreatTime,
                    totalMovingTime, totalStationaryTime, lastPosition,
                    framesRecorded, threatsRegistered>>
     /\ UNCHANGED <<enemyVars, powerUpVars, judgmentVars, worldVars>>

-----------------------------------------------------------------------------
(* SpecThreat: the tracker under registerThreat / registerReaction calls *)

ThreatSteps == {0, 1000, 2000}
ThreatSources == {[position |-> Vec(20, 0), type |-> "PUNISHER"]}
ReactionTypes == {"dash", "defend"}

ThreatTimes == {t \in {now + d : d \in ThreatSteps} : t <= StartTime + ThreatHorizon}

Init ==
  /\ now = StartTime
  /\ lastOp = "init"
  /\ TrackerInit
  /\ EnemyInit
  /\ PowerUpInit
  /\ JudgmentInit
  /\ WorldInit

ThreatArrives ==
  /\ threatsRegistered < MaxThreats
  /\ \E t \in ThreatTimes : \E src \in ThreatSources :
       RegisterThreat(t, src.position, src.type)

PlayerReacts ==
  \E t \in ThreatTimes : \E rt \in ReactionTypes : RegisterReaction(t, rt)

NextThreat == ThreatArrives \/ PlayerReacts

SpecThreat == Init /\ [][NextThreat]_vars

-----------------------------------------------------------------------------
(* Claims about registerReaction *)

Unreacted(ths) == {i \in 1..Len(ths) : ~ths[i].reacted}
\* the unreacted threats a reaction at time t may be matched to
Eligible(ths, t) == {i \in Unreacted(ths) : t - ths[i].timestamp < 2000}
\* threats purged by a call: the purge drops the oldest entries
Dropped == Len(threats) - Len(threats')
\* the stored threats that go from unreacted to reacted in this step
NewlyReacted == {i \in 1..Len(threats') :
                   threats'[i].reacted /\ ~threats[i + Dropped].reacted}

\* C3: a registerReaction call made less than 2 s after a still unreacted
\* threat marks exactly one threat reacted and appends exactly one reaction
\* time (the elapsed time of that threat), however many threats are eligible.
C3_ReactionMatchesExactlyOne ==
  [][(lastOp' = "registerReaction" /\ Eligible(threats, now') # {}) =>
       /\ Cardinality(NewlyReacted) = 1
       /\ samplesAppended' = samplesAppended + 1
       /\ Len(reactionTimes') = Len(reactionTimes) + 1
       /\ \A i \in 1..Len(reactionTimes) : reactionTimes'[i] = reactionTimes[i]
       /\ \A i \in NewlyReacted :
            reactionTimes'[Len(reactionTimes')] = now' - threats'[i].timestamp]_vars

\* a reaction has just matched one threat while another eligible one stays
\* unreacted
C3_Witness ==
  /\ lastOp = "registerReaction"
  /\ \E i, j \in 1..Len(threats) :
       /\ threats[i].reacted
       /\ threats[i].timestamp + threats[i].reactionTime = now
       /\ ~threats[j].reacted
       /\ now - threats[j].timestamp < 2000

\* C4: a registerReaction call made more than 2 s after the most recent
\* unreacted threat marks no threat reacted and leaves the reaction-time
\* buffer unchanged.
C4_LateReactionMatchesNothing ==
  [][(/\ lastOp' = "registerReaction"
      /\ Unreacted(threats) # {}
      /\ \A i \in Unreacted(threats) : now' - threats[i].timestamp > 2000) =>
       /\ NewlyReacted = {}
       /\ \A i \in 1..Len(threats') : threats'[i] = threats[i + Dropped]
       /\ reactionTimes' = reactionTimes
       /\ samplesAppended' = samplesAppended]_vars

\* a late reaction has run: an unreacted threat older than 2 s is still stored
\* and no reaction time was ever recorded
C4_Witness ==
  /\ lastOp = "registerReaction"
  /\ reactionTimes = <<>>
  /\ \E i \in 1..Len(threats) :
       ~threats[i].reacted /\ now - threats[i].timestamp > 2000

\* C5: a threat is matched to at most one reaction: a reacted threat is never
\* matched or changed again, and the reaction times ever appended never
\* outnumber the threats registered.
C5_ThreatMatchedAtMostOnce ==
  /\ [](samplesAppended <= threatsRegistered)
  /\ [][lastOp' = "registerReaction" =>
          \A i \in 1..Len(threats') :
            threats[i + Dropped].reacted => threats'[i] = threats[i + Dropped]]_vars

\* a second reaction was made while a reacted threat was still younger than 2 s
C5_Witness ==
  /\ lastOp = "registerReaction"
  /\ \E i \in 1..Len(threats) :
       /\ threats[i].reacted
       /\ threats[i].timestamp + threats[i].reactionTime < now
       /\ now - threats[i].timestamp < 2000

-----------------------------------------------------------------------------
(* SpecScore: the tracker under recordFrame calls, with threats and reactions *)

\* what the caller hands to recordFrame; delta is also the time since the
\* previous call
FrameInputs ==
  { \* rushing through a group of enemies to a pickup
    [player |-> [position |-> Vec(10, 0), velocity |-> Vec(30, 0),
                 lastAction |-> "pickup"],
     enemies |-> <<Vec(20, 0), Vec(40, 0), Vec(10, 60)>>,
     delta |-> 1000],
    \* dashing away from a single enemy
    [player |-> [position |-> Vec(600, 0), velocity |-> Vec(-60, 0),
                 lastAction |-> "dash"],
     enemies |-> <<Vec(750, 0)>>,
     delta |-> 1000],
    \* standing alone after a long pause
    [player |-> [position |-> Vec(0, 0), velocity |-> Vec(0, 0),
                 lastAction |-> "none"],
     enemies |-> <<>>,
     delta |-> 30000] }

ScoreReactionSteps == {200, 1500}

FrameArrives ==
  /\ framesRecorded < MaxFrames
  /\ \E inp \in FrameInputs :
       RecordFrame(now + inp.delta, inp.player, inp.enemies, inp.delta)

\* the telegraphed attack of the scenario, if there is one, opens the session
ScoreThreatArrives ==
  /\ lastOp = "init"
  /\ \E src \in ThreatSources : RegisterThreat(now, src.position, src.type)

ScorePlayerReacts ==
  \E d \in ScoreReactionSteps :
    /\ Eligible(threats, now + d) # {}
    /\ RegisterReaction(now + d, "dash")

NextScore == FrameArrives \/ ScoreThreatArrives \/ ScorePlayerReacts

SpecScore == Init /\ [][NextScore]_vars

-----------------------------------------------------------------------------
(* Claims about the intent scores *)

\* C1: after any sequence of recordFrame, registerThreat and registerReaction
\* calls each of the five intent scores is in [0,1].
C1_ScoresInUnitInterval ==
  \A c \in Channels : intentScores[c] >= 0 /\ intentScores[c] <= 1000

\* the scores were recomputed with reaction data present and the greed
\* channel reached the upper end of the interval
C1_Witness ==
  /\ lastOp = "recordFrame"
  /\ reactionTimes # <<>>
  /\ intentScores.greed = 1000
  /\ intentScores.aggression # 500

\* C2: a recordFrame call that ends with fewer than 10 samples in the long
\* window leaves all five scores as they were; so the scores are still the
\* initial 0.5 while fewer than 10 frames have been recorded.
C2_ScoresHeldBelowMinSamples ==
  /\ [](framesRecorded < 10 => intentScores = InitialScores)
  /\ [][(/\ lastOp' = "recordFrame"
         /\ Len(getFramesInWindow(frameData', 30000)) < 10) =>
          intentScores' = intentScores]_vars

\* a recordFrame call ended with fewer than 10 samples in the long window
\* after the scores had already moved away from the initial values
C2_Witness ==
  /\ lastOp = "recordFrame"
  /\ Len(getFramesInWindow(frameData, 30000)) < 10
  /\ intentScores # InitialScores

-----------------------------------------------------------------------------
(* SpecEnemy: one enemy under updateEnemy ticks *)

SpawnPoints == {Vec(20, 0)}
TickSteps == {500, 3000}
\* the player as the caller hands it to updateEnemy
PlayerInputs == {[position |-> Vec(0, 0), velocity |-> Vec(0, 0)],
                 [position |-> Vec(-100, 0), velocity |-> Vec(-30, 0)],
                 [position |-> Vec(-400, 0), velocity |-> Vec(0, 0)]}
\* what Math.random() gives in one call of updateEnemy: the attack roll
\* (thousandths) and the offset of a regenerated patrol target
Randoms == {[roll |-> 50, offset |-> Vec(100, 0)],
            [roll |-> 900, offset |-> Vec(-300, 0)]}

EnemySpawns ==
  /\ enemies = <<>>
  /\ \E p \in SpawnPoints : \E k \in EnemyKinds : \E off \in PatrolOffsets :
       CreateEnemy(p, k, off)

EnemyTick ==
  \E id \in 1..Len(enemies) : \E d \in TickSteps :
    /\ now + d <= StartTime + EnemyHorizon
    /\ \E player \in PlayerInputs : \E rnd \in Randoms :
         UpdateEnemy(id, now + d, player, d, NoEffects, rnd.roll, rnd.offset)

NextEnemy == EnemySpawns \/ EnemyTick

SpecEnemy == Init /\ [][NextEnemy]_vars

-----------------------------------------------------------------------------
(* SpecPowerUp: activations, updates and effect queries as time passes *)

PowerUpSteps == {0, 5000}
\* the pickup types a caller may hand over; "SHIELD" is not a power-up type
PickupTypes == PowerUpKinds \cup {"SHIELD"}

PowerUpTimes ==
  {t \in {now + d : d \in PowerUpSteps} : t <= StartTime + PowerUpHorizon}

PowerUpCollected ==
  /\ Len(powerUpHistory) < MaxActivations
  /\ \E type \in PickupTypes : \E t \in PowerUpTimes : ActivatePowerUp(type, t)

PowerUpTick == \E t \in PowerUpTimes : PowerUpUpdate(t)

EffectsRead == \E t \in PowerUpTimes : GetActiveEffects(t)

NextPowerUp == PowerUpCollected \/ PowerUpTick \/ EffectsRead

SpecPowerUp == Init /\ [][NextPowerUp]_vars

-----------------------------------------------------------------------------
(* SpecJudgment: the death screen shown once, for a range of session data *)

JudgmentScores ==
  {[aggression |-> a, evasion |-> e, greed |-> g, panic |-> p, precision |-> c] :
     a \in {500, 700, 750, 850}, e \in {500, 650, 750, 850},
     g \in {500, 650, 750}, p \in {500, 650, 750}, c \in {300, 400, 750, 850}}
MovingRatios == {100, 500, 900}
PathRepetitions == {500, 800, 950}
ReactionAverages == {200, 400, 600, 900}

PlayerDies ==
  /\ judgment = NoJudgment
  /\ \E scores \in JudgmentScores : \E mr \in MovingRatios :
     \E pr \in PathRepetitions : \E art \in ReactionAverages :
       ShowDeathScreen(JudgmentData(scores, mr, pr, art))

\* the dominant intent a caller of generateJudgment may name; "undefined" is
\* a judgmentData without the field, for which no rule list exists
DominantInputs == Channels \cup {"undefined"}

JudgmentAsked ==
  /\ judgment = NoJudgment
  /\ \E scores \in JudgmentScores : \E mr \in MovingRatios :
     \E pr \in PathRepetitions : \E art \in ReactionAverages :
     \E dom \in DominantInputs :
       GenerateJudgment([JudgmentData(scores, mr, pr, art)
                           EXCEPT !.dominantIntent = dom])

NextJudgment == PlayerDies \/ JudgmentAsked

SpecJudgment == Init /\ [][NextJudgment]_vars

-----------------------------------------------------------------------------
(* SpecPunisher: one Punisher patrolling while the tracker's scores change *)

\* score vectors the tracker reaches under SpecScore, one per dominant label
\* (precision by the tie of the initial vector, evasion, greed)
PunisherScores ==
  {InitialScores,
   [aggression |-> 0, evasion |-> 600, greed |-> 0, panic |-> 0,
    precision |-> 406],
   [aggression |-> 260, evasion |-> 345, greed |-> 650, panic |-> 446,
    precision |-> 490]}

PunisherSteps == {500, 1000}
\* a player outside the Punisher's detection range, so that it patrols
FarPlayer == [position |-> Vec(-400, 0), velocity |-> Vec(0, 0)]

PunisherSpawns ==
  /\ enemies = <<>>
  /\ CreateEnemy(Vec(20, 0), "PUNISHER", Vec(100, 0))

\* the frames recorded since the last tick left the tracker with these
\* scores; the frames themselves are not part of this specification
ScoresRecomputed ==
  /\ enemies # <<>>
  /\ lastOp # "updateIntentScores"
  /\ \E s \in PunisherScores \ {intentScores} : intentScores' = s
  /\ lastOp' = "updateIntentScores"
  /\ UNCHANGED <<now, frameData, pathHeatmap, threats, lastThreatTime,
                 reactionTimes, totalMovingTime, totalStationaryTime,
                 lastPosition, framesRecorded, threatsRegistered,
                 samplesAppended, enemyVars, powerUpVars, judgmentVars,
                 worldVars>>

PunisherTick ==
  \E d \in PunisherSteps :
    /\ enemies # <<>>
    /\ now + d <= StartTime + PunisherHorizon
    /\ UpdateEnemy(1, now + d, FarPlayer, d, NoEffects, 900, Vec(100, 0))

NextPunisher == PunisherSpawns \/ ScoresRecomputed \/ PunisherTick

SpecPunisher == Init /\ [][NextPunisher]_vars

-----------------------------------------------------------------------------
(* SpecHeat: a short walk over a few grid cells, one recordFrame per step *)

\* positions on both sides of cell borders, in both directions from the origin
HeatPositions == {Vec(-10, 0), Vec(0, 0), Vec(49, 0), Vec(50, -60)}
HeatStep == 1000

HeatFrameArrives ==
  /\ framesRecorded < MaxHeatFrames
  /\ \E p \in HeatPositions :
       RecordFrame(now + HeatStep,
                   [position |-> p, velocity |-> Vec(0, 0), lastAction |-> "none"],
                   << >>, HeatStep)

NextHeat == HeatFrameArrives

SpecHeat == Init /\ [][NextHeat]_vars

-----------------------------------------------------------------------------
(* SpecBuffer: a long fight, every telegraphed attack answered by a dash *)

BufferThreatGap == 300
FastReaction == 200
SlowReaction == 700

\* the slow answers still held in the buffer
SlowHeld == {i \in 1..Len(reactionTimes) : reactionTimes[i] = SlowReaction}

BufferThreatArrives ==
  /\ lastOp # "registerThreat"
  /\ samplesAppended < MaxBufferSamples
  /\ \E src \in ThreatSources :
       RegisterThreat(now + BufferThreatGap, src.position, src.type)

\* the player answers the attack, slowly only now and then
BufferPlayerReacts ==
  /\ lastOp = "registerThreat"
  /\ \E d \in {FastReaction} \cup
              (IF Cardinality(SlowHeld) < MaxSlowReactions
               THEN {SlowReaction} ELSE {}) :
       RegisterReaction(now + d, "dash")

NextBuffer == BufferThreatArrives \/ BufferPlayerReacts

SpecBuffer == Init /\ [][NextBuffer]_vars

-----------------------------------------------------------------------------
(* SpecAbsent: update calls that are handed absent data *)

\* an argument that was not passed: no property can be read from it
Absent == << >>

Has(obj, field) == field \in DOMAIN obj

\* recordFrame reads playerData.position.clone() and
\* playerData.velocity.clone() before anything else, without a test
recordFrameRaises(playerData) ==
  \/ ~Has(playerData, "position")
  \/ ~Has(playerData, "velocity")

\* the guard that opens updateEnemy; enemy is << >> or <<id>>
updateEnemySkips(enemy) == enemy = << >>

\* updateEnemy reads player.position.distanceTo(enemy.position) right after
\* the guard; distanceTo is a method of the position
updateEnemyRaises(player) == ~Has(player, "position")

\* recordFrame(playerData, enemiesData, delta) from the call on
RecordFrameCall(t, playerData, enemiesData, delta) ==
  IF recordFrameRaises(playerData)
  THEN /\ now' = t
       /\ lastOp' = "recordFrame: TypeError"
       /\ UNCHANGED <<trackerVars, enemyVars, powerUpVars, judgmentVars,
                      worldVars>>
  ELSE RecordFrame(t, playerData, enemiesData, delta)

\* updateEnemy(enemy, player, delta, powerUpEffects) from the call on
UpdateEnemyCall(enemy, t, player, delta, effects, roll, patrolOffset) ==
  IF updateEnemySkips(enemy)
  THEN /\ now' = t
       /\ lastOp' = "updateEnemy: skipped"
       /\ UNCHANGED <<trackerVars, enemyVars, powerUpVars, judgmentVars,
                      worldVars>>
  ELSE IF updateEnemyRaises(player)
  THEN /\ now' = t
       /\ lastOp' = "updateEnemy: TypeError"
       /\ UNCHANGED <<trackerVars, enemyVars, powerUpVars, judgmentVars,
                      worldVars>>
  ELSE UpdateEnemy(enemy[1], t, player, delta, effects, roll, patrolOffset)

\* what the caller may hand to recordFrame: a standing player, a running
\* player, a player without position, one without velocity, and none
FramePlayers ==
  <<[position |-> Vec(0, 0), velocity |-> Vec(0, 0), lastAction |-> "none"],
    [position |-> Vec(50, -60), velocity |-> Vec(30, 0), lastAction |-> "none"],
    [velocity |-> Vec(0, 0), lastAction |-> "none"],
    [position |-> Vec(0, 0), lastAction |-> "none"],
    Absent>>

\* what the caller may hand to updateEnemy as the player
TickPlayers ==
  <<[position |-> Vec(-400, 0), velocity |-> Vec(0, 0)],
    [velocity |-> Vec(0, 0)],
    Absent>>

AbsentStep == 1000

AbsentSpawns ==
  /\ enemies = <<>>
  /\ CreateEnemy(Vec(20, 0), "OBSERVER", Vec(100, 0))

AbsentFrameCall ==
  /\ now + AbsentStep <= StartTime + AbsentHorizon
  /\ \E i \in 1..Len(FramePlayers) :
       RecordFrameCall(now + AbsentStep, FramePlayers[i], << >>, AbsentStep)

AbsentEnemyCall ==
  /\ now + AbsentStep <= StartTime + AbsentHorizon
  /\ \E enemy \in {<< >>} \cup {<<id>> : id \in 1..Len(enemies)} :
     \E i \in 1..Len(TickPlayers) :
       UpdateEnemyCall(enemy, now + AbsentStep, TickPlayers[i], AbsentStep,
                       NoEffects, 900, Vec(100, 0))

NextAbsent == AbsentSpawns \/ AbsentFrameCall \/ AbsentEnemyCall

SpecAbsent == Init /\ [][NextAbsent]_vars

-----------------------------------------------------------------------------
(* SpecPack: several Punishers, spawned at any time, watching one player *)

PackStep == 1000

\* the tracker has no samples yet, so the scores are the initial ones
PackSpawns ==
  /\ Len(enemies) < MaxPunishers
  /\ CreateEnemy(Vec(20, 0), "PUNISHER", Vec(100, 0))

PackTick ==
  \E id \in 1..Len(enemies) :
    /\ now + PackStep <= StartTime + PackHorizon
    /\ UpdateEnemy(id, now + PackStep, FarPlayer, PackStep, NoEffects, 900,
                   Vec(100, 0))

NextPack == PackSpawns \/ PackTick

SpecPack == Init /\ [][NextPack]_vars

-----------------------------------------------------------------------------
(* SpecAttack: one enemy close to the player, updated by the game loop in
   short and long frames; the loop collects the pending damage after each
   updateEnemy call *)

AttackSteps == {250, 1000}
\* the player next to the enemy, standing, and further off, walking away
AttackPlayers == {[position |-> Vec(0, 0), velocity |-> Vec(0, 0)],
                  [position |-> Vec(-100, 0), velocity |-> Vec(-30, 0)]}

\* an enemy holds damage the loop has not collected yet
DamagePending(id) == enemies[id].pendingPlayerDamage > 0

AttackSpawns ==
  /\ enemies = <<>>
  /\ \E k \in EnemyKinds : CreateEnemy(Vec(20, 0), k, Vec(100, 0))

AttackTick ==
  \E id \in 1..Len(enemies) : \E d \in AttackSteps :
    /\ ~DamagePending(id)
    /\ now + d <= StartTime + AttackHorizon
    /\ \E player \in AttackPlayers : \E rnd \in Randoms :
         UpdateEnemy(id, now + d, player, d, NoEffects, rnd.roll, rnd.offset)

\* the game loop after updateEnemy: takeDamage(pendingPlayerDamage), the
\* pending damage cleared, registerReaction('hit_by_enemy')
DamageCollected ==
  \E id \in 1..Len(enemies) :
    /\ DamagePending(id)
    /\ \E r \in {registerReaction(threats, reactionTimes, now, "hit_by_enemy")} :
         /\ enemies' = [enemies EXCEPT ![id].pendingPlayerDamage = 0]
         /\ lastOp' = "takeDamage"
         /\ threats' = r.threats
         /\ reactionTimes' = r.reactionTimes
         /\ samplesAppended' = samplesAppended + r.pushes
         /\ UNCHANGED <<now, frameData, intentScores, pathHeatmap,
                        lastThreatTime, totalMovingTime, totalStationaryTime,
                        lastPosition, framesRecorded, threatsRegistered>>
         /\ UNCHANGED <<enemyTypes, lastDelta, attackChanges, lastPlayer,
                        lastRoll>>
         /\ UNCHANGED <<powerUpVars, judgmentVars, worldVars>>

NextAttack == AttackSpawns \/ AttackTick \/ DamageCollected

SpecAttack == Init /\ [][NextAttack]_vars

-----------------------------------------------------------------------------
(* SpecSpike: spikes under updateSpikes ticks and retraction callbacks.
   A behaviour of it may go on for ever, so its clock does not count up:
   after a frame of d milliseconds every time kept by the spikes and the
   timers is moved d milliseconds into the past instead, which leaves every
   difference "now - time" what it would be.  Times further back than
   SpikeMemory are kept as SpikeMemory back, which no comparison of
   updateSpikes can tell apart. *)

SpikeFrames == {50, 200}
SpikeSite == Vec(0, 0)
SpikePlayers == {[position |-> Vec(10, 0), velocity |-> Vec(-30, 0)],
                 [position |-> Vec(-400, 0), velocity |-> Vec(0, 0)]}
SpikeScores == {InitialScores,
                [InitialScores EXCEPT !.aggression = 800],
                [InitialScores EXCEPT !.evasion = 800, !.panic = 600]}

Earlier(time, d) == Max(time - d, now - SpikeMemory)

SpikeCreated ==
  /\ Len(spikeObjects) < MaxSpikes
  /\ spikeObjects' = Append(spikeObjects, NewSpike(SpikeSite))
  /\ spikes' = Append(spikes, Len(spikeObjects) + 1)
  /\ extendedAge' = Append(extendedAge, 0)
  /\ lastOp' = "createIntentBasedSpike"
  /\ UNCHANGED <<now, timers, frameDelta, platforms, lastWorldCall, lastEnemiesData,
                 trackerVars, enemyVars, powerUpVars, judgmentVars>>

SpikeEnemySpawns ==
  /\ enemies = <<>>
  /\ CreateEnemy(Vec(10, 0), "OBSERVER", Vec(100, 0))

\* the frames recorded since the last tick left the tracker with these scores
SpikeScoresRecomputed ==
  /\ lastOp # "updateIntentScores"
  /\ \E s \in SpikeScores \ {intentScores} : intentScores' = s
  /\ lastOp' = "updateIntentScores"
  /\ UNCHANGED <<now, frameData, pathHeatmap, threats, lastThreatTime,
                 reactionTimes, totalMovingTime, totalStationaryTime,
                 lastPosition, framesRecorded, threatsRegistered,
                 samplesAppended, enemyVars, powerUpVars, judgmentVars,
                 worldVars>>

\* one frame of the game loop: updateSpikes(player, enemies, delta), and then
\* d milliseconds pass until the next frame.  The callbacks that are due run
\* before the frame; a behaviour keeps the frame length it began with.
\* damage flagged by a spike that the game loop has not collected yet
SpikeDamagePending ==
  \/ \E i \in 1..Len(spikes) : spikeObjects[spikes[i]].pendingPlayerDamage > 0
  \/ \E e \in 1..Len(enemies) : enemies[e].pendingSpikeHit

SpikeFrame(player, d) ==
  /\ spikeObjects # <<>>
  /\ \A tm \in timers : tm.due > now
  /\ ~SpikeDamagePending
  /\ \E r \in {updateSpikes(1, spikeObjects, enemies, timers, now,
                            intentScores, player, frameDelta)} :
       /\ spikeObjects' =
            [i \in 1..Len(r.objects) |->
               [r.objects[i] EXCEPT
                  !.lastEvaluationTime = Earlier(@, d),
                  !.lastDamageTime = Earlier(@, d)]]
       /\ enemies' = r.enemies
       /\ timers' = {[tm EXCEPT !.due = Max(@ - d, now)] : tm \in r.timers}
       /\ frameDelta' = d
       /\ extendedAge' =
            [i \in 1..Len(r.objects) |->
               IF r.objects[i].state # "extended" THEN 0
               ELSE IF spikeObjects[i].state # "extended" THEN d
               ELSE Min(extendedAge[i] + d, RetractionDelay)]
       /\ lastWorldCall' = [player |-> player]
  /\ lastOp' = "updateSpikes"
  /\ UNCHANGED <<now, spikes, platforms, lastEnemiesData, trackerVars,
                 enemyTypes, lastDelta, attackChanges, lastPlayer, lastRoll,
                 powerUpVars, judgmentVars>>

SpikeTick ==
  \E player \in SpikePlayers :
    \E d \in IF frameDelta = 0 THEN SpikeFrames ELSE {frameDelta} :
      SpikeFrame(player, d)

\* the game loop collects what the spikes flagged: takeDamage for the
\* player right after the update, the enemy's health in the enemy loop of
\* the next frame (health is not part of this model); both clear the flag
SpikeDamageCollected ==
  /\ SpikeDamagePending
  /\ spikeObjects' =
       [id \in 1..Len(spikeObjects) |->
          IF \E i \in 1..Len(spikes) : spikes[i] = id
          THEN [spikeObjects[id] EXCEPT !.pendingPlayerDamage = 0]
          ELSE spikeObjects[id]]
  /\ enemies' = [e \in 1..Len(enemies) |->
                   [enemies[e] EXCEPT !.pendingSpikeHit = FALSE]]
  /\ lastOp' = "spikeDamageCollected"
  /\ UNCHANGED <<now, spikes, timers, frameDelta, platforms, extendedAge,
                 lastWorldCall, lastEnemiesData, trackerVars, enemyTypes, lastDelta,
                 attackChanges, lastPlayer, lastRoll, powerUpVars,
                 judgmentVars>>

\* a timer that is due runs its callback
TimerFires ==
  \E tm \in timers :
    /\ tm.due <= now
    /\ spikeObjects' = [spikeObjects EXCEPT
                          ![tm.spike] = retractionCallback(@)]
    /\ timers' = timers \ {tm}
    /\ lastOp' = "retractionCallback"
    /\ UNCHANGED <<now, spikes, frameDelta, platforms, extendedAge,
                   lastWorldCall, lastEnemiesData, trackerVars, enemyVars, powerUpVars,
                   judgmentVars>>

NextSpike ==
  \/ SpikeCreated
  \/ SpikeEnemySpawns
  \/ SpikeScoresRecomputed
  \/ SpikeTick
  \/ SpikeDamageCollected
  \/ TimerFires

SpecSpike == Init /\ [][NextSpike]_vars

\* the game loop keeps running and a due timer is run
SpecSpikeFair ==
  /\ Init
  /\ [][NextSpike]_vars
  /\ WF_vars(SpikeTick)
  /\ WF_vars(SpikeDamageCollected)
  /\ WF_vars(TimerFires)

-----------------------------------------------------------------------------
(* SpecPlatform: one platform under updatePlatforms ticks, while what the
   tracker knows of the player changes between the ticks *)

PlatformSteps == {300, 600}
PlatformPlayers == {[position |-> Vec(50, 0), velocity |-> Vec(0, 0)],
                    [position |-> Vec(-400, 0), velocity |-> Vec(0, 0)]}
PlatformScores == {InitialScores,
                   [InitialScores EXCEPT !.evasion = 700],
                   [InitialScores EXCEPT !.aggression = 600]}
\* totalMovingTime and totalStationaryTime: ratios 0.5 (nothing recorded),
\* 0.2, 0.3, 0.7 and 0.8
PlatformMovement == {<<0, 0>>, <<2000, 8000>>, <<3000, 7000>>,
                     <<7000, 3000>>, <<8000, 2000>>}

PlatformCreated ==
  /\ Len(platforms) < MaxPlatforms
  /\ platforms' = Append(platforms, NewPlatform(Vec(0, 0), 0))
  /\ lastOp' = "createJudgmentalPlatform"
  /\ UNCHANGED <<now, spikeObjects, spikes, timers, frameDelta, extendedAge,
                 lastWorldCall, lastEnemiesData, trackerVars, enemyVars, powerUpVars,
                 judgmentVars>>

PlatformEnemySpawns ==
  /\ enemies = <<>>
  /\ CreateEnemy(Vec(30, 0), "OBSERVER", Vec(100, 0))

\* the frames recorded since the last tick left the tracker with these
\* scores and movement times
PlayerProfiled ==
  /\ lastOp # "recordFrame"
  /\ \E s \in PlatformScores, mv \in PlatformMovement :
       /\ <<s, mv>> # <<intentScores, <<totalMovingTime, totalStationaryTime>>>>
       /\ intentScores' = s
       /\ totalMovingTime' = mv[1]
       /\ totalStationaryTime' = mv[2]
  /\ lastOp' = "recordFrame"
  /\ UNCHANGED <<now, frameData, pathHeatmap, threats, lastThreatTime,
                 reactionTimes, lastPosition, framesRecorded,
                 threatsRegistered, samplesAppended, enemyVars, powerUpVars,
                 judgmentVars, worldVars>>

PlatformTick ==
  /\ platforms # <<>>
  /\ \E d \in PlatformSteps, player \in PlatformPlayers :
       /\ now + d <= StartTime + PlatformHorizon
       /\ now' = now + d
       /\ platforms' =
            updatePlatforms(platforms, now + d, intentScores,
                            MovingRatio(totalMovingTime, totalStationaryTime),
                            player, enemies, d)
       /\ lastWorldCall' = [player |-> player]
  /\ lastOp' = "updatePlatforms"
  /\ UNCHANGED <<spikeObjects, spikes, timers, frameDelta, extendedAge,
                 lastEnemiesData, trackerVars, enemyVars, powerUpVars,
                 judgmentVars>>

NextPlatform ==
  \/ PlatformCreated
  \/ PlatformEnemySpawns
  \/ PlayerProfiled
  \/ PlatformTick

SpecPlatform == Init /\ [][NextPlatform]_vars

-----------------------------------------------------------------------------
(* SpecDispose: the spike of SpecSpike under frames of 0.05 s with the player
   running at it, and dispose() called at any point between two frames *)

\* a dispose() that would also clear the timers its spikes have pending
DisposeCancelling ==
  /\ spikes # <<>>
  /\ spikes' = <<>>
  /\ platforms' = <<>>
  /\ timers' = {}
  /\ lastOp' = "dispose"
  /\ UNCHANGED <<now, spikeObjects, frameDelta, extendedAge, lastWorldCall, lastEnemiesData,
                 trackerVars, enemyVars, powerUpVars, judgmentVars>>

\* dispose(): the meshes leave the scene and the lists are emptied; the
\* spike objects live on in the callbacks that hold them
Dispose ==
  /\ spikes # <<>>
  /\ spikes' = <<>>
  /\ platforms' = <<>>
  /\ lastOp' = "dispose"
  /\ UNCHANGED <<now, spikeObjects, timers, frameDelta, extendedAge,
                 lastWorldCall, lastEnemiesData, trackerVars, enemyVars, powerUpVars,
                 judgmentVars>>

DisposeTick ==
  SpikeFrame([position |-> Vec(10, 0), velocity |-> Vec(-30, 0)], 50)

NextDispose ==
  \/ SpikeCreated
  \/ SpikeEnemySpawns
  \/ SpikeScoresRecomputed
  \/ DisposeTick
  \/ SpikeDamageCollected
  \/ TimerFires
  \/ Dispose

SpecDispose == Init /\ [][NextDispose]_vars

-----------------------------------------------------------------------------
(* SpecCycle: one enemy under updateEnemy ticks that go on as long as the
   clock allows, with the player next to the enemy, out of its attack range,
   or out of its detection range from one tick to the next *)

CycleSteps == {500, 1000}
CyclePlayers == {[position |-> Vec(0, 0), velocity |-> Vec(0, 0)],
                 [position |-> Vec(-100, 0), velocity |-> Vec(-30, 0)],
                 [position |-> Vec(-400, 0), velocity |-> Vec(0, 0)]}

CycleSpawns ==
  /\ enemies = <<>>
  /\ \E k \in EnemyKinds : CreateEnemy(Vec(20, 0), k, Vec(100, 0))

\* a behaviour keeps the frame length it began with
CycleTick ==
  \E d \in IF lastOp = "updateEnemy" THEN {lastDelta} ELSE CycleSteps :
  \E player \in CyclePlayers : \E rnd \in Randoms :
    /\ enemies # <<>>
    /\ now + d <= StartTime + CycleHorizon
    /\ rnd.roll < enemyTypes[enemies[1].enemyType].attackFrequency =>
         now + d <= StartTime + CycleLastStart
    /\ UpdateEnemy(1, now + d, player, d, NoEffects, rnd.roll, rnd.offset)

NextCycle == CycleSpawns \/ CycleTick

SpecCycle == Init /\ [][NextCycle]_vars

\* the game loop calls updateEnemy in every frame
SpecCycleFair == Init /\ [][NextCycle]_vars /\ WF_vars(CycleTick)

-----------------------------------------------------------------------------
(* SpecNearest: frames recorded with the enemies next to the player, a few
   hundred units off, and more than 999 units off *)

NearestStep == 1000
NearestPlayers == {[position |-> Vec(0, 0), velocity |-> Vec(0, 0),
                    lastAction |-> "none"],
                   [position |-> Vec(50, -60), velocity |-> Vec(30, 0),
                    lastAction |-> "none"]}
NearestEnemies == {<<>>,
                   <<Vec(20, 0)>>,
                   <<Vec(3000, 4000), Vec(20, 0), Vec(900, 0)>>,
                   <<Vec(9990, 0)>>,
                   <<Vec(12000, 0)>>,
                   <<Vec(0, 15000), Vec(12000, 0)>>,
                   <<Vec(12000, 0), Vec(6000, 0)>>}

NearestFrameArrives ==
  /\ framesRecorded < MaxNearestFrames
  /\ \E player \in NearestPlayers : \E enemiesData \in NearestEnemies :
       RecordFrame(now + NearestStep, player, enemiesData, NearestStep)

NextNearest == NearestFrameArrives

SpecNearest == Init /\ [][NextNearest]_vars

-----------------------------------------------------------------------------
(* Claims about the attack sub-state machine *)

AttackCycle == {<<"idle", "windup">>, <<"windup", "attacking">>,
                <<"attacking", "cooldown">>, <<"cooldown", "idle">>}

\* C6: an enemy's attack sub-state only ever changes along
\* idle -> windup -> attacking -> cooldown -> idle, so a cycle started by a
\* successful roll visits these states in order, skipping and repeating none.
C6_AttackStateFollowsCycle ==
  [][\A id \in 1..Len(enemies) :
       (id <= Len(enemies') /\ enemies'[id].attackState # enemies[id].attackState)
         => <<enemies[id].attackState, enemies'[id].attackState>> \in AttackCycle]_vars

\* an enemy is back in idle after a complete attack cycle
C6_Witness ==
  \E id \in 1..Len(enemies) :
    /\ enemies[id].attackState = "idle"
    /\ enemies[id].attackWindupStartTime > 0
    /\ enemies[id].attackStartTime > enemies[id].attackWindupStartTime
    /\ enemies[id].lastAttackTime > enemies[id].attackStartTime

\* C7: one updateEnemy call changes the enemy's attack sub-state at most once,
\* also when the tick is longer than windup, attack and cooldown together.
C7_OneAttackTransitionPerTick ==
  attackChanges <= 1

\* a tick longer than the whole attack cycle took a winding-up enemy to
\* attacking and no further
C7_Witness ==
  /\ lastOp = "updateEnemy"
  /\ attackChanges = 1
  /\ \E id \in 1..Len(enemies) :
       LET def == enemyTypes[enemies[id].enemyType]
       IN /\ lastDelta > def.attackWindup + def.attackDuration + RecoveryTime
          /\ enemies[id].attackState = "attacking"
          /\ enemies[id].attackStartTime = now

-----------------------------------------------------------------------------
(* Claims about the power-up phases *)

BenefitFields == {"enemySpeedMultiplier", "damageMultiplier", "speedMultiplier"}
CostFields == {"enemyPredictionBonus", "reactionWindowReduction",
               "enemyResistanceToPattern", "worldAwarenessIncrease",
               "hazardResponseSpeed"}

\* the effects just read differ, in one of the fields, from what the same
\* call gives with activation i taken out of the list
Reflected(i, fields) ==
  \E f \in fields :
    activeEffects[f] # getActiveEffects(Splice(activePowerUps, i), now)[f]

\* the cost window the activation was given has run out
CostWindowElapsed(p) == p.costStartTime # NoTime /\ now >= p.costEndTime

\* C8: read right after activation, the effects show the activation's
\* benefit; read at any time at or after its expiry they show its cost and
\* not its benefit; read once its cost window has run out they show neither.
C8_EffectsFollowPhases ==
  lastOp = "getActiveEffects" =>
    \A i \in 1..Len(activePowerUps) :
      LET p == activePowerUps[i]
      IN /\ now = p.activationTime => Reflected(i, BenefitFields)
         /\ (now >= p.expiryTime /\ ~CostWindowElapsed(p)) =>
              (~Reflected(i, BenefitFields) /\ Reflected(i, CostFields))
         /\ CostWindowElapsed(p) =>
              (~Reflected(i, BenefitFields) /\ ~Reflected(i, CostFields))

SameActivation(p, q) ==
  p.type = q.type /\ p.activationTime = q.activationTime

Kept(p, list) == \E j \in 1..Len(list) : SameActivation(list[j], p)

\* C9: an activation leaves the active list only in an update call, only
\* when that call found it already out of its benefit phase, and only when
\* its full durationAfterExpiry has passed since its cost window started.
C9_PrunedOnlyAfterCostWindow ==
  [][\A i \in 1..Len(activePowerUps) :
       LET p == activePowerUps[i]
       IN ~Kept(p, activePowerUps') =>
            /\ lastOp' = "update"
            /\ ~p.active
            /\ p.costStartTime # NoTime
            /\ now' - p.costStartTime >=
                 PowerUpTypes[p.type].psychologicalCost.durationAfterExpiry]_vars

\* an update pruned one activation and kept another
C9_Witness ==
  /\ lastOp = "update"
  /\ activePowerUps # <<>>
  /\ Len(activePowerUps) < Len(powerUpHistory)

-----------------------------------------------------------------------------
(* Claims about the judgment *)

\* the session the claim is about: aggression leads and no combined rule holds
RecklessCase(d) ==
  /\ d.dominantIntent = "aggression"
  /\ d.intentScores.aggression > 700
  /\ d.intentScores.precision < 400
  /\ Matching(CombinedJudgments(d)) = {}

\* aggression 0.85, precision 0.3, average reaction time 0.2 s
FastRecklessCase(d) ==
  /\ RecklessCase(d)
  /\ d.intentScores.aggression = 850
  /\ d.intentScores.precision = 300
  /\ d.averageReactionTime = 200

\* C10 as stated: with dominant intent aggression, aggression 0.85,
\* precision 0.3, average reaction time 0.2 s and no combined rule matching,
\* the judgment is "Reckless force. The world rewards patience."
C10_RecklessForceAsStated ==
  (judgment # NoJudgment /\ FastRecklessCase(judgmentData)) =>
    judgment = "Reckless force. The world rewards patience."

\* C10 amended: with dominant intent aggression, aggression > 0.7,
\* precision < 0.4 and no combined rule matching, the judgment is "Reckless
\* force. The world rewards patience." unless the earlier rule (aggression >
\* 0.8 and average reaction time < 0.3 s) holds, which gives "You trusted
\* speed. The world waited."; so the case 0.85 / 0.3 / 0.2 s gives the latter.
C10_RecklessForceUnlessFast ==
  (judgment # NoJudgment /\ RecklessCase(judgmentData)) =>
    judgment = IF /\ judgmentData.intentScores.aggression > 800
                  /\ judgmentData.averageReactionTime < 300
               THEN "You trusted speed. The world waited."
               ELSE "Reckless force. The world rewards patience."

\* the death screen was shown for the session of the claim
C10_Witness ==
  /\ lastOp = "show"
  /\ FastRecklessCase(judgmentData)
  /\ judgment = "You trusted speed. The world waited."

StandingStill == "Standing still is still a choice. The world remembered."

\* C11: whenever movingRatio < 0.2 the judgment is the standing-still
\* sentence, whatever the scores, the dominant intent, the path repetition
\* and the average reaction time are.
C11_StandingStillWins ==
  (judgment # NoJudgment /\ judgmentData.movementStats.movingRatio < 200) =>
    judgment = StandingStill

\* movingRatio 0.1 in a session where other combined rules and a rule of the
\* dominant intent hold too
C11_Witness ==
  /\ judgment = StandingStill
  /\ judgmentData.movementStats.movingRatio = 100
  /\ judgmentData.averageReactionTime > 800
  /\ judgmentData.movementStats.pathRepetition > 900
  /\ judgmentData.dominantIntent = "precision"
  /\ judgmentData.intentScores.precision > 800

\* the rules in the order the claim gives them: the combined rules, then the
\* rules of the dominant intent if it has a list, then the fallback
PriorityTable(d) ==
  CombinedJudgments(d)
    \o (IF d.dominantIntent \in Channels THEN Judgments(d)[d.dominantIntent]
        ELSE << >>)
    \o << Rule(TRUE, Fallback) >>

\* C12: the judgment is the text of the first entry of the priority table
\* (combined rules, then the dominant intent's rules, then the fallback)
\* whose condition holds, so it is a function of the judgment data alone.
C12_FirstMatchingRuleWins ==
  judgment # NoJudgment =>
    \E i \in 1..Len(PriorityTable(judgmentData)) :
      /\ PriorityTable(judgmentData)[i].condition
      /\ judgment = PriorityTable(judgmentData)[i].text
      /\ \A k \in 1..(i - 1) : ~PriorityTable(judgmentData)[k].condition

\* no combined rule held and the second rule of the dominant intent won,
\* while the third held as well
C12_Witness ==
  /\ judgment = "Fear guided you. The world sensed it."
  /\ judgmentData.dominantIntent = "evasion"
  /\ Matching(CombinedJudgments(judgmentData)) = {}
  /\ Matching(EvasionRules(judgmentData)) = {2, 3}

-----------------------------------------------------------------------------
(* Claims about the Punisher's pattern detection *)

\* the last n labels of the memory are all the same
SameLabels(obs, n) ==
  /\ Len(obs) >= n
  /\ \A k \in (Len(obs) - n + 1)..Len(obs) : obs[k] = obs[Len(obs)]

\* the memory is full and no label is followed by itself
Alternating(obs, n) ==
  /\ Len(obs) = n
  /\ \A k \in 1..(n - 1) : obs[k] # obs[k + 1]

Boosted(u) ==
  /\ u.patternDetected
  /\ enemyTypes[u.enemyType].speed * 10 = u.baseSpeed * 13

Unboosted(u) ==
  /\ ~u.patternDetected
  /\ enemyTypes[u.enemyType].speed = u.baseSpeed

Punishers == {id \in 1..Len(enemies) : enemies[id].enemyType = "PUNISHER"}

\* C13 as stated: four or more consecutive samples of one label give
\* patternDetected and 1.3 x base speed; five alternating labels give no
\* pattern and the base speed.
C13_PatternAsStated ==
  \A id \in Punishers :
    /\ SameLabels(enemies[id].observedActions, 4) => Boosted(enemies[id])
    /\ Alternating(enemies[id].observedActions, 5) => Unboosted(enemies[id])

\* C13 amended: four or more consecutive samples of one label give
\* patternDetected and 1.3 x base speed; five alternating labels give no
\* pattern and the base speed when they hold three or more distinct labels,
\* but an alternation between two labels is itself detected as a pattern.
C13_PatternByDistinctLabels ==
  \A id \in Punishers :
    LET obs == enemies[id].observedActions
    IN /\ SameLabels(obs, 4) => Boosted(enemies[id])
       /\ (Alternating(obs, 5) /\ Cardinality(SeqToSet(obs)) >= 3)
            => Unboosted(enemies[id])
       /\ (Alternating(obs, 5) /\ Cardinality(SeqToSet(obs)) = 2)
            => Boosted(enemies[id])

\* a Punisher that sampled two labels in alternation five times
C13_Witness ==
  /\ lastOp = "updateEnemy"
  /\ \E id \in Punishers :
       /\ Alternating(enemies[id].observedActions, 5)
       /\ Cardinality(SeqToSet(enemies[id].observedActions)) = 2
       /\ Boosted(enemies[id])

-----------------------------------------------------------------------------
(* Claims about the path heatmap *)

\* positions asked about: the visited ones and one far from every visit
HeatProbes == HeatPositions \cup {Vec(40, -1), Vec(990, 990)}

MostVisited(key) ==
  /\ key \in DOMAIN pathHeatmap
  /\ \A k \in DOMAIN pathHeatmap : pathHeatmap[k] <= pathHeatmap[key]

\* C14: getPathRepetition is exactly 1.0 for a position in a cell with the
\* highest visit count and exactly 0.0 for a position in a cell never
\* visited, also while the heatmap is empty.
C14_RepetitionOneAndZero ==
  \A p \in HeatProbes :
    /\ MostVisited(GridKey(p)) => getPathRepetition(pathHeatmap, p) = 1000
    /\ GridKey(p) \notin DOMAIN pathHeatmap
         => getPathRepetition(pathHeatmap, p) = 0

\* cells with different counts, the highest above 1, and an unvisited probe
C14_Witness ==
  /\ lastOp = "recordFrame"
  /\ \E k1, k2 \in DOMAIN pathHeatmap :
       /\ pathHeatmap[k1] < pathHeatmap[k2]
       /\ pathHeatmap[k2] >= 3
       /\ MostVisited(k2)
  /\ \E p \in HeatProbes : GridKey(p) \notin DOMAIN pathHeatmap

\* the sum of the counts of the cells in keys
RECURSIVE HeatTotal(_, _)
HeatTotal(heat, keys) ==
  IF keys = {} THEN 0
  ELSE LET k == CHOOSE c \in keys : TRUE
       IN heat[k] + HeatTotal(heat, keys \ {k})

\* cell <<cx, cz>> is the 5 x 5 cell holding the position: floor(x/5), floor(z/5)
InCell(position, cell) ==
  /\ cell[1] * GridSize <= position.x /\ position.x < (cell[1] + 1) * GridSize
  /\ cell[2] * GridSize <= position.z /\ position.z < (cell[2] + 1) * GridSize

CountAt(heat, cell) == IF cell \in DOMAIN heat THEN heat[cell] ELSE 0

\* C17: every count is non-negative and the counts sum to the number of
\* recordFrame calls; a step that is not a recordFrame leaves the heatmap as
\* it is, and a recordFrame adds exactly 1 to the cell holding the sample's
\* position and changes no other cell.
C17_HeatmapCountsVisits ==
  /\ [](/\ \A k \in DOMAIN pathHeatmap : pathHeatmap[k] >= 0
        /\ HeatTotal(pathHeatmap, DOMAIN pathHeatmap) = framesRecorded)
  /\ [][IF lastOp' = "recordFrame" /\ framesRecorded' = framesRecorded + 1
        THEN \E cell \in DOMAIN pathHeatmap' :
               /\ InCell(frameData'[Len(frameData')].position, cell)
               /\ pathHeatmap'[cell] = CountAt(pathHeatmap, cell) + 1
               /\ DOMAIN pathHeatmap' = DOMAIN pathHeatmap \cup {cell}
               /\ \A k \in DOMAIN pathHeatmap' \ {cell} :
                    pathHeatmap'[k] = pathHeatmap[k]
        ELSE pathHeatmap' = pathHeatmap]_vars

\* a walk that came back to a cell left of the origin and to one below it
C17_Witness ==
  /\ framesRecorded = MaxHeatFrames
  /\ CountAt(pathHeatmap, <<-1, 0>>) >= 2
  /\ CountAt(pathHeatmap, <<0, 0>>) >= 2
  /\ CountAt(pathHeatmap, <<1, -2>>) >= 1

-----------------------------------------------------------------------------
(* Claims about threat storage and the reaction-time buffer *)

\* C15: no Threat Event is stored in the tracker more than 5 seconds after
\* its creation, whatever is or is not called after its creation.
C15_NoThreatStoredBeyondLifetime ==
  \A i \in 1..Len(threats) : now - threats[i].timestamp <= ThreatLifetime

\* C16: the reaction-time buffer never holds more than 20 values; a matched
\* reaction appends its value at the end and, when the buffer was full,
\* evicts the oldest value, the others keeping their order; nothing else
\* changes the buffer.
C16_BufferKeepsLatestTwenty ==
  /\ [](Len(reactionTimes) <= MaxReactionTimes)
  /\ [][IF samplesAppended' = samplesAppended + 1
        THEN LET x == reactionTimes'[Len(reactionTimes')]
             IN reactionTimes' =
                  IF Len(reactionTimes) < MaxReactionTimes
                  THEN Append(reactionTimes, x)
                  ELSE Append(Tail(reactionTimes), x)
        ELSE reactionTimes' = reactionTimes]_vars

\* the 22nd matched reaction: the buffer is full, the two oldest values are
\* gone and a slow answer has moved up to the front
C16_Witness ==
  /\ lastOp = "registerReaction"
  /\ samplesAppended = MaxReactionTimes + 2
  /\ Len(reactionTimes) = MaxReactionTimes
  /\ reactionTimes[1] = SlowReaction
  /\ reactionTimes[2] = FastReaction
  /\ reactionTimes[MaxReactionTimes] = SlowReaction

-----------------------------------------------------------------------------
(* Claims about the sample store *)

Windows == {WindowShort, WindowMedium, WindowLong}

\* the indices of the retained samples newer than (latest timestamp - d)
InWindow(d) ==
  {i \in 1..Len(frameData) :
     frameData[i].timestamp > frameData[Len(frameData)].timestamp - d}

\* C18: right after a recordFrame call the newest retained sample is the one
\* just recorded and every retained sample is newer than (current time -
\* 30 s); getFramesInWindow(d) is the list of the retained samples newer than
\* (latest timestamp - d), empty when there is none; and the scores that call
\* leaves are computed from the retained samples, the new one included.
C18_WindowsOverRetainedSamples ==
  /\ [](/\ lastOp = "recordFrame" =>
             /\ frameData # << >>
             /\ frameData[Len(frameData)].timestamp = now
             /\ \A i \in 1..Len(frameData) :
                  frameData[i].timestamp > now - WindowLong
        /\ \A d \in Windows :
             getFramesInWindow(frameData, d) =
               IF frameData = << >> THEN << >>
               ELSE SubSeq(frameData,
                           Len(frameData) - Cardinality(InWindow(d)) + 1,
                           Len(frameData)))
  /\ [][lastOp' = "recordFrame" =>
          intentScores' = updateIntentScores(intentScores, frameData',
                                             reactionTimes', pathHeatmap')]_vars

\* a recordFrame after a long pause: the older samples were pruned, the new
\* one is the only one retained, and enough had been recorded before for the
\* scores to have moved
C18_Witness ==
  /\ lastOp = "recordFrame"
  /\ framesRecorded > MinSamples
  /\ Len(frameData) = 1
  /\ intentScores # InitialScores

-----------------------------------------------------------------------------
(* Claims about calls with absent data *)

\* the outcomes of a call that was handed absent data
SkippedCalls == {"updateEnemy: skipped"}
RaisedCalls == {"recordFrame: TypeError", "updateEnemy: TypeError"}

\* C19: an update call that is handed a missing position or an absent
\* collaborator (no enemy, no player, no player velocity) returns without
\* raising and leaves the state of the tracker and of the enemies as it was.
C19_AbsentDataIsSkipped ==
  [][lastOp' \in SkippedCalls \cup RaisedCalls =>
       /\ lastOp' \in SkippedCalls
       /\ UNCHANGED <<trackerVars, enemyVars>>]_vars

\* the part that the guard of updateEnemy does give: a call without an enemy
\* returns and changes nothing
AbsentEnemyIsSkipped ==
  [][lastOp' \in SkippedCalls => UNCHANGED <<trackerVars, enemyVars>>]_vars

\* a call was skipped after frames were recorded and an enemy was spawned
C19_Witness ==
  /\ lastOp \in SkippedCalls
  /\ framesRecorded > 0
  /\ enemies # << >>

-----------------------------------------------------------------------------
(* Claims about the aggregation of effects *)

AdditiveCostFields == CostFields \ {"hazardResponseSpeed"}

\* the phase an activation is in as getActiveEffects tests it at time t
InBenefitPhase(p) == p.active
InCostWindow(p, t) ==
  /\ ~p.active
  /\ p.costStartTime # NoTime
  /\ p.costEndTime # NoTime
  /\ t < p.costEndTime

\* the product, from 1.0 on, of the multipliers f of the first k activations
\* that are in the benefit phase and whose type has that multiplier
RECURSIVE BenefitProduct(_, _, _)
BenefitProduct(list, k, f) ==
  IF k = 0 THEN One
  ELSE LET m == PowerUpTypes[list[k].type].immediateEffect[f]
       IN IF InBenefitPhase(list[k]) /\ m # 0
          THEN Scale(BenefitProduct(list, k - 1, f), m)
          ELSE BenefitProduct(list, k - 1, f)

\* the sum, from 0 on, of the cost terms f of the first k activations that
\* are in their cost window at time t
RECURSIVE CostSum(_, _, _, _)
CostSum(list, k, f, t) ==
  IF k = 0 THEN 0
  ELSE CostSum(list, k - 1, f, t) +
       (IF InCostWindow(list[k], t)
        THEN PowerUpTypes[list[k].type].psychologicalCost[f] ELSE 0)

\* the product, from 1.0 on, of the cost factors of the first k activations
\* that are in their cost window at time t and whose type has that factor
RECURSIVE CostProduct(_, _, _)
CostProduct(list, k, t) ==
  IF k = 0 THEN One
  ELSE LET m == PowerUpTypes[list[k].type].psychologicalCost.hazardResponseSpeed
       IN IF InCostWindow(list[k], t) /\ m # 0
          THEN Scale(CostProduct(list, k - 1, t), m)
          ELSE CostProduct(list, k - 1, t)

\* C20: the effects getActiveEffects returns are, field by field, the
\* identity (1.0 for a multiplier, 0 for an additive term) combined with
\* every activation of the list: each benefit multiplier is the product over
\* the activations in the benefit phase, each additive cost the sum over the
\* activations in their cost window, the cost factor the product over those;
\* with an empty list the result is the identity.
C20_EffectsStackFromIdentity ==
  lastOp = "getActiveEffects" =>
    /\ \A f \in BenefitFields :
         activeEffects[f] =
           BenefitProduct(activePowerUps, Len(activePowerUps), f)
    /\ \A f \in AdditiveCostFields :
         activeEffects[f] =
           CostSum(activePowerUps, Len(activePowerUps), f, now)
    /\ activeEffects.hazardResponseSpeed =
         CostProduct(activePowerUps, Len(activePowerUps), now)
    /\ activePowerUps = << >> => activeEffects = NoEffects

\* two speed surges, both in their cost window when the effects are read:
\* the awareness terms have added up and the hazard factors have multiplied
C20_Witness ==
  /\ lastOp = "getActiveEffects"
  /\ Len(activePowerUps) = 2
  /\ \A i \in 1..2 : /\ activePowerUps[i].type = "SPEED_SURGE"
                     /\ InCostWindow(activePowerUps[i], now)
  /\ activeEffects.worldAwarenessIncrease =
       2 * PowerUpTypes.SPEED_SURGE.psychologicalCost.worldAwarenessIncrease
  /\ activeEffects.hazardResponseSpeed > One
       + (PowerUpTypes.SPEED_SURGE.psychologicalCost.hazardResponseSpeed - One) * 2

-----------------------------------------------------------------------------
(* Claims about the speed of Punishers *)

\* the speed handleMovement uses for enemy id: that of its definition
SpeedOf(id) == enemyTypes[enemies[id].enemyType].speed

\* the speed the Punisher type is defined with
PunisherBaseSpeed == InitialEnemyTypes.PUNISHER.speed

\* every Punisher moves at the type's base speed or at 1.3 x that speed
SpeedIsBaseOrBoosted ==
  \A id \in Punishers :
    \/ SpeedOf(id) = PunisherBaseSpeed
    \/ SpeedOf(id) * 10 = PunisherBaseSpeed * 13

\* a step that leaves a Punisher's own data untouched leaves its speed
UntouchedKeepsSpeed ==
  \A id \in Punishers :
    (id <= Len(enemies') /\ enemies'[id] = enemies[id])
      => enemyTypes'[enemies[id].enemyType].speed = SpeedOf(id)

\* C21: the speed of every Punisher is the type's base speed or exactly
\* 1.3 x that base speed, whatever was created and updated before (the boost
\* never compounds), and the detection or reset of one Punisher does not
\* change the speed of another.
C21_PunisherSpeedNeverCompounds ==
  []SpeedIsBaseOrBoosted /\ [][UntouchedKeepsSpeed]_vars

\* a Punisher created while another had its pattern detected, and then a
\* pattern detected by the new one
C21_Witness ==
  /\ lastOp = "updateEnemy"
  /\ \E id \in Punishers :
       /\ enemies[id].patternDetected
       /\ enemies[id].baseSpeed # PunisherBaseSpeed

-----------------------------------------------------------------------------
(* Claims about Threat Events and attacks *)

\* enemy id changes its attack sub-state from a to b in this step
Goes(id, a, b) ==
  /\ id <= Len(enemies')
  /\ enemies[id].attackState = a
  /\ enemies'[id].attackState = b

\* this step appends a Threat Event for enemy id, stamped with the time of
\* the call
ThreatCreatedFor(id) ==
  /\ threatsRegistered' = threatsRegistered + 1
  /\ Len(threats') = Len(threats) + 1
  /\ threats'[Len(threats')].timestamp = now'
  /\ threats'[Len(threats')].position = enemies'[id].position
  /\ threats'[Len(threats')].type = enemies'[id].enemyType

\* C22 as stated: a Threat Event is created exactly in the tick where an
\* enemy's attack sub-state goes from idle to windup.
C22_ThreatAtTelegraphStart ==
  [][(\E id \in 1..Len(enemies) : Goes(id, "idle", "windup"))
       <=> threatsRegistered' > threatsRegistered]_vars

\* C22 amended: a Threat Event is created when the telegraph ends, in the
\* tick where the attack sub-state goes from windup to attacking, at least
\* the telegraph duration after the telegraph began; the tick that begins
\* the telegraph creates none.
C22_ThreatAtTelegraphEnd ==
  [][\A id \in 1..Len(enemies) :
       /\ Goes(id, "idle", "windup") => UNCHANGED <<threats, threatsRegistered>>
       /\ Goes(id, "windup", "attacking") =>
            /\ ThreatCreatedFor(id)
            /\ now' - enemies[id].attackWindupStartTime >=
                 enemyTypes[enemies[id].enemyType].attackWindup]_vars

\* an enemy is attacking and the threat of this attack is stored, stamped
\* later than the beginning of the telegraph
C22_Witness ==
  /\ lastOp = "updateEnemy"
  /\ \E id \in 1..Len(enemies) :
       /\ enemies[id].attackState = "attacking"
       /\ enemies[id].attackStartTime = now
       /\ threats # << >>
       /\ threats[Len(threats)].timestamp = now
       /\ threats[Len(threats)].timestamp > enemies[id].attackWindupStartTime

\* the Threat Events stored that were created since enemy id last began a
\* telegraph
ThreatsOfCycle(id) ==
  {i \in 1..Len(threats) :
     /\ threats[i].timestamp >= enemies[id].attackWindupStartTime
     /\ threats[i].type = enemies[id].enemyType}

\* C23: a tick creates one Threat Event when it takes the enemy from windup
\* to attacking and none otherwise; so an attack cycle has no Threat Event
\* while the enemy winds up and exactly one from the start of the attack on.
C23_OneThreatPerAttack ==
  /\ [][threatsRegistered' - threatsRegistered =
          Cardinality({id \in 1..Len(enemies) : Goes(id, "windup", "attacking")})]_vars
  /\ [](\A id \in 1..Len(enemies) :
          /\ enemies[id].attackState = "windup"
               => Cardinality(ThreatsOfCycle(id)) = 0
          /\ (enemies[id].attackState # "windup"
              /\ enemies[id].attackWindupStartTime > 0)
               => Cardinality(ThreatsOfCycle(id)) = 1)

\* an enemy back in idle after a whole attack cycle, in which a tick found it
\* attacking and flagged damage, and one Threat Event in all
C23_Witness ==
  /\ threatsRegistered = 1
  /\ \E id \in 1..Len(enemies) :
       /\ enemies[id].attackState = "idle"
       /\ enemies[id].lastAttackTime > enemies[id].attackStartTime
       /\ enemies[id].attackStartTime > enemies[id].attackWindupStartTime
       /\ enemies[id].pendingPlayerDamage # NoDamage

-----------------------------------------------------------------------------
(* Claims about the behaviour state *)

\* the distance updateEnemy computes when it is called in this step: from the
\* player it is given to the enemy's position before the call
DistanceAtCall(id) == DistanceTo(lastPlayer'.position, enemies[id].position)

\* the behaviour state the ranges alone give
StateByRange(def, distance) ==
  IF distance < def.attackRange THEN "engage"
  ELSE IF distance < def.detectionRange THEN "chase"
  ELSE "patrol"

\* C24: after each updateEnemy call the behaviour state of the enemy is
\* engage when the player is within attack range, chase when the player is
\* within detection range but not within attack range, and patrol when the
\* player is outside detection range, whatever its attack sub-state is.
C24_StateFollowsRanges ==
  [][lastOp' = "updateEnemy" =>
       \A id \in 1..Len(enemies) :
         enemies'[id].state =
           StateByRange(enemyTypes[enemies[id].enemyType], DistanceAtCall(id))]_vars

\* the same for the calls that find the enemy's attack sub-state idle
StateFollowsRangesWhenIdle ==
  [][lastOp' = "updateEnemy" =>
       \A id \in 1..Len(enemies) :
         enemies[id].attackState = "idle" =>
           enemies'[id].state =
             StateByRange(enemyTypes[enemies[id].enemyType], DistanceAtCall(id))]_vars

\* an enemy in the middle of its telegraph with the player next to it
C24_Witness ==
  /\ lastOp = "updateEnemy"
  /\ \E id \in 1..Len(enemies) :
       /\ enemies[id].attackState = "windup"
       /\ enemies[id].attackWindupStartTime < now
       /\ DistanceTo(lastPlayer.position, enemies[id].position) <
            enemyTypes[enemies[id].enemyType].attackRange

-----------------------------------------------------------------------------
(* Claims about the start and the timing of an attack *)

\* the attack cooldown of an enemy: 1 s for a Punisher that has detected a
\* pattern, 2 s otherwise
CooldownOf(u) ==
  IF u.enemyType = "PUNISHER" /\ u.patternDetected THEN PunishCooldown
  ELSE BaselineCooldown

\* the conditions for enemy id to begin a telegraph in this step
MayBeginTelegraph(id) ==
  LET def == enemyTypes[enemies[id].enemyType]
  IN /\ enemies'[id].state = "engage"
     /\ DistanceTo(lastPlayer'.position, enemies'[id].position) < def.attackRange
     /\ now' - enemies[id].lastAttackTime > CooldownOf(enemies[id])
     /\ lastRoll' < def.attackFrequency

\* C25: an updateEnemy call takes an idle enemy to windup when its behaviour
\* state is engage, the player is within attack range, more than the attack
\* cooldown (2 s, or 1 s for a Punisher with a detected pattern) has passed
\* since its last attack ended and the random roll is below the type's
\* attack frequency; in every other call the idle enemy stays idle.
C25_TelegraphBeginsOnlyWhenAllowed ==
  [][lastOp' = "updateEnemy" =>
       \A id \in 1..Len(enemies) :
         enemies[id].attackState = "idle" =>
           /\ MayBeginTelegraph(id) => enemies'[id].attackState = "windup"
           /\ ~MayBeginTelegraph(id) => enemies'[id].attackState = "idle"]_vars

\* a Punisher with a detected pattern has begun its second telegraph more
\* than 1 s but less than 2 s after its first attack ended
C25_Witness ==
  /\ lastOp = "updateEnemy"
  /\ \E id \in 1..Len(enemies) :
       /\ enemies[id].attackState = "windup"
       /\ enemies[id].attackWindupStartTime = now
       /\ enemies[id].lastAttackTime > 0
       /\ now - enemies[id].lastAttackTime < BaselineCooldown


\* C26: the tick that takes an enemy into windup, attacking or cooldown
\* stamps the time of entry, and an enemy leaves windup only when its type's
\* attackWindup has passed since that entry, leaves attacking only when
\* attackDuration has passed, and leaves cooldown only when more than the
\* 0.5 s recovery interval has passed.
C26_SubStatesHoldTheirDurations ==
  [][\A id \in 1..Len(enemies) :
       LET def == enemyTypes[enemies[id].enemyType]
           u == enemies[id]
       IN id <= Len(enemies') =>
            /\ Goes(id, "idle", "windup") =>
                 enemies'[id].attackWindupStartTime = now'
            /\ Goes(id, "windup", "attacking") =>
                 enemies'[id].attackStartTime = now'
            /\ Goes(id, "attacking", "cooldown") =>
                 enemies'[id].lastAttackTime = now'
            /\ (u.attackState = "windup" /\ enemies'[id].attackState # "windup")
                 => now' - u.attackWindupStartTime >= def.attackWindup
            /\ (u.attackState = "attacking" /\ enemies'[id].attackState # "attacking")
                 => now' - u.attackStartTime >= def.attackDuration
            /\ (u.attackState = "cooldown" /\ enemies'[id].attackState # "cooldown")
                 => now' - u.lastAttackTime > RecoveryTime]_vars

\* an enemy is still in cooldown, whole ticks after its attack ended and
\* within the recovery interval
C26_Witness ==
  /\ lastOp = "updateEnemy"
  /\ \E id \in 1..Len(enemies) :
       /\ enemies[id].attackState = "cooldown"
       /\ enemies[id].lastAttackTime < now
       /\ now - enemies[id].lastAttackTime <= RecoveryTime

-----------------------------------------------------------------------------
(* Claims about pending damage and distortion *)

\* the conditions for an updateEnemy call to flag damage for enemy id
AttackHits(id) ==
  LET def == enemyTypes[enemies[id].enemyType]
  IN /\ enemies[id].attackState = "attacking"
     /\ now' - enemies[id].attackStartTime < def.attackDuration
     /\ DistanceTo(lastPlayer'.position, enemies'[id].position) < def.attackRange

\* C27: an updateEnemy call leaves the pending player damage as it found it
\* unless it finds the enemy attacking, the attack duration not yet over and
\* the player within attack range; then the pending damage is the type's
\* attack damage, which for a Distorter is 0.
C27_DamageOnlyWhileAttackingInRange ==
  /\ [][lastOp' = "updateEnemy" =>
          \A id \in 1..Len(enemies) :
            /\ AttackHits(id) =>
                 enemies'[id].pendingPlayerDamage =
                   enemyTypes[enemies[id].enemyType].attackDamage
            /\ ~AttackHits(id) =>
                 enemies'[id].pendingPlayerDamage = enemies[id].pendingPlayerDamage]_vars
  /\ [](\A id \in 1..Len(enemies) :
          enemies[id].enemyType = "DISTORTER" =>
            enemies[id].pendingPlayerDamage \in {NoDamage, 0})

\* a tick has found the enemy attacking with the player in range and has
\* flagged the damage, which the game loop has not collected yet
C27_Witness ==
  /\ lastOp = "updateEnemy"
  /\ \E id \in 1..Len(enemies) :
       /\ DamagePending(id)
       /\ enemies[id].attackState = "attacking"
       /\ enemies[id].attackStartTime < now
       /\ enemies[id].pendingPlayerDamage =
            enemyTypes[enemies[id].enemyType].attackDamage


Distorters == {id \in 1..Len(enemies) : enemies[id].enemyType = "DISTORTER"}

\* C28: a Distorter's distortion flag is true exactly when the attack
\* sub-state its last updateEnemy call left it in is attacking, and then the
\* distortion centre is its position and the radius its attack range.
C28_DistortionWhileAttacking ==
  \A id \in Distorters :
    /\ enemies[id].causeDistortion <=> enemies[id].attackState = "attacking"
    /\ enemies[id].causeDistortion =>
         /\ enemies[id].distortionCenter = enemies[id].position
         /\ enemies[id].distortionRadius =
              enemyTypes[enemies[id].enemyType].attackRange

\* a Distorter that had chased the player is distorting where it stands now
C28_Witness ==
  /\ lastOp = "updateEnemy"
  /\ \E id \in Distorters :
       /\ enemies[id].causeDistortion
       /\ enemies[id].attackStartTime = now
       /\ enemies[id].position # Vec(20, 0)

-----------------------------------------------------------------------------
(* Claims about the dominant intent *)

\* the Punishers that sampled the dominant intent in the call just made
Sampling ==
  {id \in Punishers : /\ lastOp = "updateEnemy"
                      /\ enemies[id].lastObservationTime = now
                      /\ enemies[id].observedActions # << >>}

\* the channels holding the maximum of a score vector
Leading(scores) ==
  {c \in Channels : \A other \in Channels : scores[other] <= scores[c]}

\* C29: the label a Punisher samples for a score vector is the dominant
\* intent getJudgmentData reports for the same vector, also when several
\* channels tie for the maximum.
C29_SameDominantIntent ==
  \A id \in Sampling :
    enemies[id].observedActions[Len(enemies[id].observedActions)] =
      DominantIntent(intentScores)

\* the same for the vectors with a single leading channel
SameDominantIntentWithoutTie ==
  \A id \in Sampling :
    Cardinality(Leading(intentScores)) = 1 =>
      enemies[id].observedActions[Len(enemies[id].observedActions)] =
        DominantIntent(intentScores)

\* a Punisher has sampled a vector in which several channels tie
C29_Witness ==
  /\ Sampling # {}
  /\ Cardinality(Leading(intentScores)) > 1

-----------------------------------------------------------------------------
(* Claims about spikes *)

SpikeStates(set) ==
  /\ spikes # <<>>
  /\ \A i \in 1..Len(spikes) : spikeObjects[spikes[i]].state \in set

\* with these scores neither extension condition of updateSpikes can hold,
\* wherever the player and the enemies are
ScoresCalm ==
  /\ ~(intentScores.evasion > 700 /\ intentScores.panic > 500)
  /\ ~(intentScores.aggression > 700)

SpikeOut == SpikeStates({"extending", "extended"})
SpikeRetracted == SpikeStates({"retracted"})

\* C30: if a spike has started extending and from some point on neither
\* extension condition holds, then with the ticks going on and the due timers
\* run the spike is retracted again at some later time: it does not stay
\* extending or extended for ever.
C30_SpikeEventuallyRetracts ==
  <>[]ScoresCalm => [](SpikeOut => <>SpikeRetracted)

\* a spike that went out and is on its way back
C30_Witness == SpikeStates({"retracting"}) /\ ScoresCalm

\* a spike at rest at its extended height in the state "extending": no tick
\* moves it or changes its state, and no callback is scheduled for it
SpikeStuckOut ==
  /\ SpikeStates({"extending"})
  /\ \A i \in 1..Len(spikes) :
       Abs(spikeObjects[spikes[i]].extendedY
             - spikeObjects[spikes[i]].currentY) <= MovingAbove
  /\ timers = {}

\* a step in which spike i goes from extended to retracting
StartsRetracting(i) ==
  /\ i <= Len(spikeObjects')
  /\ spikeObjects[i].state = "extended"
  /\ spikeObjects'[i].state = "retracting"

\* C31: a spike that has become extended stays extended for the retraction
\* delay of 2 s at least before it starts retracting, whatever callbacks
\* scheduled earlier are still to run.
C31_ExtendedForTheDelay ==
  [][\A i \in 1..Len(spikeObjects) :
       StartsRetracting(i) => extendedAge[i] >= RetractionDelay]_vars

\* a callback has just sent a spike back that was extended for less
C31_Witness ==
  /\ lastOp = "retractionCallback"
  /\ \E i \in 1..Len(spikeObjects) :
       /\ spikeObjects[i].state = "retracting"
       /\ extendedAge[i] > 0
       /\ extendedAge[i] < RetractionDelay


\* the spikes listed before the step that are still there after it
ListedSpikes == {spikes[i] : i \in 1..Len(spikes)} \cap 1..Len(spikeObjects')

\* the tick evaluates the spike: more than 0.3 s since its last evaluation
EvaluationTick(id) ==
  /\ lastOp' = "updateSpikes"
  /\ now - spikeObjects[id].lastEvaluationTime > 300

\* the two extension conditions, for the player the tick was given
PlayerRunsIntoSpike(id, player) ==
  /\ intentScores.evasion > 700
  /\ intentScores.panic > 500
  /\ SpikeDistance(spikeObjects[id], player.position) < 80
  /\ HeadingDot(spikeObjects[id], player) > 300

EnemyOverSpike(id) ==
  /\ intentScores.aggression > 700
  /\ \E e \in 1..Len(enemies) :
       SpikeDistance(spikeObjects[id], enemies[e].position) < 30

\* C32: a retracted spike leaves the retracted state only in a tick that
\* evaluates it (more than 0.3 s after its last evaluation) and finds the
\* player fleeing towards it (evasion > 0.7, panic > 0.5, within 8 units,
\* dot product > 0.3) or an enemy within 3 units with aggression > 0.7; in
\* every other step it stays retracted.
C32_RetractedUntilTriggered ==
  [][\A id \in ListedSpikes :
       (spikeObjects[id].state = "retracted"
          /\ spikeObjects'[id].state # "retracted")
       => /\ EvaluationTick(id)
          /\ \/ PlayerRunsIntoSpike(id, lastWorldCall'.player)
             \/ EnemyOverSpike(id)]_vars

\* a retracted spike has been sent out by the player running into it, with
\* no enemy about
C32_Witness ==
  /\ lastOp = "updateSpikes"
  /\ enemies = <<>>
  /\ SpikeStates({"extending"})
  /\ \E i \in 1..Len(spikes) :
       spikeObjects[spikes[i]].currentY = SpikeRetractedY


\* what a tick flagged: the flags are down before every tick
FlagsPlayer(id) == spikeObjects'[id].pendingPlayerDamage > 0
FlagsEnemy(e) == enemies'[e].pendingSpikeHit

\* the tick leaves spike id extended, more than 0.5 s after its last damage
DamageTick(id) ==
  /\ spikeObjects'[id].state = "extended"
  /\ now - spikeObjects[id].lastDamageTime > 500

WithinDamageRange(id, position) ==
  SpikeDistance(spikeObjects'[id], position) < 15

\* C33: a spike flags damage only while it is extended and more than 0.5 s
\* after its last damage time; in such a tick the player, if within 1.5
\* units, and every enemy within 1.5 units are flagged, all in that tick.
C33_DamageAlikeWhileExtended ==
  [][lastOp' = "updateSpikes" =>
       /\ \A id \in ListedSpikes :
            /\ FlagsPlayer(id) =>
                 /\ DamageTick(id)
                 /\ WithinDamageRange(id, lastWorldCall'.player.position)
            /\ DamageTick(id) =>
                 /\ WithinDamageRange(id, lastWorldCall'.player.position)
                      => FlagsPlayer(id)
                 /\ \A e \in 1..Len(enemies) :
                      WithinDamageRange(id, enemies[e].position)
                        => FlagsEnemy(e)
       /\ \A e \in 1..Len(enemies) :
            FlagsEnemy(e) =>
              \E id \in ListedSpikes :
                /\ DamageTick(id)
                /\ WithinDamageRange(id, enemies[e].position)]_vars

\* one tick has flagged the player and an enemy
C33_Witness ==
  /\ lastOp = "updateSpikes"
  /\ \E i \in 1..Len(spikes) : spikeObjects[spikes[i]].pendingPlayerDamage > 0
  /\ \E e \in 1..Len(enemies) : enemies[e].pendingSpikeHit


-----------------------------------------------------------------------------
(* Claims about platforms *)

\* the tick evaluated platform i
PlatformEvaluated(i) ==
  platforms'[i].lastEvaluationTime # platforms[i].lastEvaluationTime

\* what an evaluation must decide, from what the tick was given
Camping(i) ==
  /\ MovingRatio(totalMovingTime, totalStationaryTime) < 300
  /\ PlatformDistance(platforms[i], lastWorldCall'.player.position) < 150
  /\ intentScores.evasion > 600

Escaping(i) ==
  /\ ~Camping(i)
  /\ MovingRatio(totalMovingTime, totalStationaryTime) > 700
  /\ intentScores.aggression > 500

Decided(i) ==
  CASE Camping(i) -> [intention |-> "lift_enemies",
                      targetY |-> platforms[i].baseY + 3000]
    [] Escaping(i) -> [intention |-> "create_escape",
                       targetY |-> platforms[i].baseY + 2000]
    [] OTHER -> [intention |-> "none", targetY |-> platforms[i].baseY]

\* C34: an evaluation sets lift_enemies and base+3 exactly when movingRatio <
\* 0.3, the player is within 15 units and evasion > 0.6, otherwise
\* create_escape and base+2 exactly when movingRatio > 0.7 and aggression >
\* 0.5, otherwise no intention and the base height; evaluations are more than
\* 0.5 s apart, and between them intention and target height do not change.
C34_PlatformIntention ==
  [][lastOp' = "updatePlatforms" =>
       \A i \in 1..Len(platforms) :
         IF PlatformEvaluated(i)
         THEN /\ now' - platforms[i].lastEvaluationTime > 500
              /\ platforms'[i].intention = Decided(i).intention
              /\ platforms'[i].targetY = Decided(i).targetY
         ELSE /\ platforms'[i].intention = platforms[i].intention
              /\ platforms'[i].targetY = platforms[i].targetY]_vars

\* a platform that has held each of the two intentions is back to none
C34_Witness ==
  /\ lastOp = "updatePlatforms"
  /\ \E i \in 1..Len(platforms) :
       /\ platforms[i].intention = "none"
       /\ platforms[i].currentY > platforms[i].baseY
       /\ platforms[i].position # Vec(0, 0)


-----------------------------------------------------------------------------
(* Claims about the retraction callbacks *)

\* the callback tm as it is pending after the step: a frame brings it
\* frameDelta' closer, any other step leaves it as it is
StillPending(tm) ==
  IF lastOp' = "updateSpikes"
  THEN [tm EXCEPT !.due = Max(@ - frameDelta', now)]
  ELSE tm

\* C35: a scheduled retraction callback is never cancelled: dispose() leaves
\* every pending callback pending, a callback leaves the pending set only by
\* firing, and when it fires it acts on its spike (extended becomes
\* retracting) whether or not the spike is still in the WorldReactions list.
C35_CallbackNeverCancelled ==
  [][/\ lastOp' = "dispose" => timers' = timers
     /\ \/ \A tm \in timers : StillPending(tm) \in timers'
        \/ /\ lastOp' = "retractionCallback"
           /\ \E tm \in timers :
                /\ tm.due <= now
                /\ timers' = timers \ {tm}
                /\ spikeObjects'[tm.spike].state =
                     IF spikeObjects[tm.spike].state = "extended"
                     THEN "retracting"
                     ELSE spikeObjects[tm.spike].state]_vars

\* a callback has just sent back an extended spike that dispose() had removed
C35_Witness ==
  /\ lastOp = "retractionCallback"
  /\ spikes = <<>>
  /\ \E id \in 1..Len(spikeObjects) :
       /\ spikeObjects[id].state = "retracting"
       /\ extendedAge[id] > 0


-----------------------------------------------------------------------------
(* Claims about the order of the registerReaction scan *)

\* C36: with several unreacted threats younger than 2 s, registerReaction
\* matches the one with the latest timestamp, the last of them in the list;
\* the older eligible ones stay unreacted, and the reaction time recorded, in
\* the threat and in reactionTimes, is the time elapsed since that threat.
C36_LatestThreatMatched ==
  [][(lastOp' = "registerReaction"
        /\ Cardinality(Eligible(threats, now')) >= 2) =>
       LET latest == CHOOSE i \in Eligible(threats, now') :
                       \A j \in Eligible(threats, now') : j <= i
           matched == threats'[latest - Dropped]
       IN /\ \A j \in Eligible(threats, now') :
               threats[j].timestamp <= threats[latest].timestamp
          /\ matched.reacted
          /\ matched.timestamp = threats[latest].timestamp
          /\ matched.reactionTime = now' - matched.timestamp
          /\ reactionTimes'[Len(reactionTimes')] = now' - matched.timestamp
          /\ \A j \in Eligible(threats, now') \ {latest} :
               /\ ~threats'[j - Dropped].reacted
               /\ threats'[j - Dropped].reactionTime = NoReactionTime]_vars

\* a reaction was matched to the later of two threats, and the threat of a
\* second earlier, still younger than 2 s, is left unreacted
C36_Witness ==
  /\ lastOp = "registerReaction"
  /\ \E i, j \in 1..Len(threats) :
       /\ threats[i].timestamp < threats[j].timestamp
       /\ now - threats[i].timestamp < 2000
       /\ ~threats[i].reacted
       /\ threats[j].reacted
       /\ threats[j].reactionTime = now - threats[j].timestamp


-----------------------------------------------------------------------------
(* Claims about the two phases of an activation *)

\* what getActiveEffects adds for the activation p alone when asked at time t
EffectsOfOne(p, t) == ApplyPowerUp(NoEffects, p, t)
CountsBenefit(p, t) ==
  \E f \in BenefitFields : EffectsOfOne(p, t)[f] # NoEffects[f]
CountsCost(p, t) ==
  \E f \in CostFields : EffectsOfOne(p, t)[f] # NoEffects[f]

\* C37: at every time getActiveEffects counts, for each activation, its
\* benefit or its cost terms or neither, never both; costStartTime and
\* costEndTime are unset exactly while active is true, and once set
\* costEndTime = costStartTime + durationAfterExpiry with costStartTime not
\* earlier than expiryTime.
C37_BenefitOrCostNeverBoth ==
  \A i \in 1..Len(activePowerUps) :
    LET p == activePowerUps[i]
    IN /\ \A t \in {now + d : d \in {0, 1000, 5000, 15000}} :
            ~(CountsBenefit(p, t) /\ CountsCost(p, t))
       /\ p.active <=> p.costStartTime = NoTime
       /\ p.active <=> p.costEndTime = NoTime
       /\ ~p.active =>
            /\ p.costEndTime =
                 p.costStartTime
                   + PowerUpTypes[p.type].psychologicalCost.durationAfterExpiry
            /\ p.costStartTime >= p.expiryTime

\* one activation is in its cost window, begun by an update later than its
\* expiry time, and counted for its cost; another still counts for its benefit
C37_Witness ==
  /\ lastOp = "getActiveEffects"
  /\ \E i, j \in 1..Len(activePowerUps) :
       /\ ~activePowerUps[i].active
       /\ activePowerUps[i].costStartTime > activePowerUps[i].expiryTime
       /\ CountsCost(activePowerUps[i], now)
       /\ ~CountsBenefit(activePowerUps[i], now)
       /\ activePowerUps[j].active
       /\ CountsBenefit(activePowerUps[j], now)
       /\ ~CountsCost(activePowerUps[j], now)


-----------------------------------------------------------------------------
(* Claims about the attack cycle running to its end *)

InAttackState(s) == enemies # <<>> /\ enemies[1].attackState = s

\* the tick took the enemy from attack sub-state a to b
AttackStep(a, b) ==
  /\ InAttackState(a)
  /\ enemies'[1].attackState = b

\* C38: an enemy in windup goes on, under repeated updateEnemy ticks, to
\* attacking, cooldown and idle wherever the player is: no tick takes it out
\* of the cycle, and the tick that begins the attack registers its Threat
\* Event whatever the player's distance.
C38_AttackCycleRunsToIdle ==
  /\ [][/\ InAttackState("windup") =>
             enemies'[1].attackState \in {"windup", "attacking"}
        /\ InAttackState("attacking") =>
             enemies'[1].attackState \in {"attacking", "cooldown"}
        /\ InAttackState("cooldown") =>
             enemies'[1].attackState \in {"cooldown", "idle"}
        /\ AttackStep("windup", "attacking") =>
             /\ threatsRegistered' = threatsRegistered + 1
             /\ Len(threats') = Len(threats) + 1
             /\ threats'[Len(threats')].timestamp = now'
             /\ threats'[Len(threats')].type = enemies[1].enemyType]_vars
  /\ InAttackState("windup") ~> InAttackState("attacking")
  /\ InAttackState("attacking") ~> InAttackState("cooldown")
  /\ InAttackState("cooldown") ~> InAttackState("idle")

\* the attack has just begun and its threat is registered with the player
\* beyond the enemy's detection range
C38_Witness ==
  /\ lastOp = "updateEnemy"
  /\ InAttackState("attacking")
  /\ attackChanges = 1
  /\ threats # <<>>
  /\ threats[Len(threats)].timestamp = now
  /\ DistanceTo(lastPlayer.position, enemies[1].position)
       >= enemyTypes[enemies[1].enemyType].detectionRange
  /\ enemies[1].state = "patrol"

\* a cycle is over that the player left: the enemy is idle again, patrolling
CycleOverFarAway ==
  /\ lastOp = "updateEnemy"
  /\ InAttackState("idle")
  /\ attackChanges = 1
  /\ enemies[1].state = "patrol"


-----------------------------------------------------------------------------
(* Claims about the shadowed precision rule *)

\* C39: generateJudgment never returns "You repeated yourself.": whenever the
\* condition of that rule holds, the condition of the precision rule declared
\* before it holds as well, and the earlier rule wins.
C39_RepeatedYourselfNeverReturned ==
  judgment # NoJudgment =>
    /\ judgment # "You repeated yourself."
    /\ 2 \in Matching(PrecisionRules(judgmentData)) =>
         1 \in Matching(PrecisionRules(judgmentData))

\* the precision rules were tried with the condition of the second one true,
\* and the sentence of the first one came back
C39_Witness ==
  /\ judgmentData.dominantIntent = "precision"
  /\ Matching(CombinedJudgments(judgmentData)) = {}
  /\ 2 \in Matching(PrecisionRules(judgmentData))
  /\ judgment = "Perfect patterns. Perfectly predictable."


-----------------------------------------------------------------------------
(* Claims about the nearest-threat distance *)

\* the least distance from playerPos to a position of the non-empty list
MinimumDistance(playerPos, enemiesData) ==
  CHOOSE d \in {DistanceTo(playerPos, enemiesData[k]) :
                  k \in 1..Len(enemiesData)} :
    \A k \in 1..Len(enemiesData) : d <= DistanceTo(playerPos, enemiesData[k])

LastFrame == frameData[Len(frameData)]

\* C40: the nearest-threat distance stored in a sample is the least distance
\* from the player position to a supplied enemy position, for every non-empty
\* list and every distance, also when every enemy is farther than 999 units;
\* it is the sentinel 999 when no enemies are supplied.
C40_NearestIsMinimumDistance ==
  (lastOp = "recordFrame" /\ frameData # <<>>) =>
    LastFrame.nearestEnemyDistance =
      IF lastEnemiesData = <<>> THEN NoEnemyDistance
      ELSE MinimumDistance(LastFrame.position, lastEnemiesData)

\* a sample was recorded with every enemy farther than 999 units
C40_Witness ==
  /\ lastOp = "recordFrame"
  /\ frameData # <<>>
  /\ lastEnemiesData # <<>>
  /\ MinimumDistance(LastFrame.position, lastEnemiesData) > NoEnemyDistance

\* what the code stores: the least distance, but never more than the 999
\* the scan begins with
NearestIsMinimumUpToSentinel ==
  (lastOp = "recordFrame" /\ frameData # <<>>) =>
    LastFrame.nearestEnemyDistance =
      IF lastEnemiesData = <<>> THEN NoEnemyDistance
      ELSE Min(MinimumDistance(LastFrame.position, lastEnemiesData),
               NoEnemyDistance)

=============================================================================
